---------------------------- MODULE Spec2Model ----------------------------
(***************************************************************************)
(* Model of the trip analysis engine (src/analysis_engine.py).             *)
(*                                                                         *)
(* The engine is a library of functions over the text of a bid package.    *)
(* A state of the model is one call of an entry point: op names the        *)
(* function called (none before the call), args holds its arguments and    *)
(* ret what it returned.  Every function of the engine is an operator that *)
(* computes its result the way the code does.                              *)
(*                                                                         *)
(* Text is modelled by its tokens.  A line of a trip is a record whose     *)
(* kind says which literal the code finds in it ('EFFECTIVE', 'EXCEPT',    *)
(* 'TOTAL CREDIT', ...); a 4-character time token is its hour, minute and  *)
(* its trailing next-day marker; a date is a (year, month, day) record.    *)
(***************************************************************************)
EXTENDS Integers, Sequences, FiniteSets, TLC

VARIABLES op, args, ret

vars == <<op, args, ret>>

(***************************************************************************)
(* Bounds of the model.                                                    *)
(***************************************************************************)
\* most 'MMM DD' entries on an EXCEPT line
MaxExcept == 2

\* the most lines of a file given to parse_trips
MaxFileLines == 5

\* the most trips of a file given to analyze_file
MaxTrips == 2

\* the most calls of a session
MaxCalls == 3

\* the most trips of a file given to generate_staffing_heatmap
MaxHeatTrips == 2

\* the most lines of a trip given to get_total_credit
MaxCreditLines == 3

\* the most trips of a file given to get_base_top20_legs
MaxTopTrips == 2

\* the leg lines of the trip of many legs given to get_base_top20_legs
ManyLegLines == 9

\* the most lines after the EFFECTIVE line of a trip given to is_split_trip
\* and split_trip_into_sections
MaxSplitLines == 4

\* the most lines of a trip body in a call on one trip
MaxLegLines == 2

\* the most lines between the EFFECTIVE line and the separator of a file
MaxBodyLines == 3

(***************************************************************************)
(* General helpers.                                                        *)
(***************************************************************************)
Range(s) == {s[i] : i \in 1..Len(s)}

Max(a, b) == IF a >= b THEN a ELSE b

\* the concatenation of a sequence of line groups
RECURSIVE Concat(_)
Concat(groups) ==
    IF groups = <<>> THEN <<>> ELSE Head(groups) \o Concat(Tail(groups))

\* sequences over S of length 0..n
SeqsUpTo(S, n) == UNION {[1..k -> S] : k \in 0..n}

(***************************************************************************)
(* datetime: the part of Python's datetime the engine uses.                *)
(***************************************************************************)
\* Python's None where a date is expected
None == [year |-> 0, month |-> 0, day |-> 0]

\* the ValueError datetime(...) raises for an impossible date
ValueError == [year |-> -1, month |-> 0, day |-> 0]

IsLeap(y) == (y % 4 = 0 /\ y % 100 # 0) \/ y % 400 = 0

DaysInMonth(y, m) ==
    CASE m = 2 -> IF IsLeap(y) THEN 29 ELSE 28
      [] m \in {4, 6, 9, 11} -> 30
      [] OTHER -> 31

\* datetime(year, month, day): the date, or ValueError
datetime(y, m, d) ==
    IF m \in 1..12 /\ d >= 1 /\ d <= DaysInMonth(y, m)
    THEN [year |-> y, month |-> m, day |-> d]
    ELSE ValueError

DaysBeforeYear(y) ==
    LET p == y - 1 IN p * 365 + (p \div 4) - (p \div 100) + (p \div 400)

DaysBeforeMonth(y, m) ==
    <<0, 31, 59, 90, 120, 151, 181, 212, 243, 273, 304, 334>>[m]
    + (IF m > 2 /\ IsLeap(y) THEN 1 ELSE 0)

\* date.toordinal(): days since 0001-01-01, which is day 1
toordinal(dt) ==
    DaysBeforeYear(dt.year) + DaysBeforeMonth(dt.year, dt.month) + dt.day

\* date.weekday(): Monday is 0, Sunday is 6
weekday_of_ordinal(n) == (n + 6) % 7

weekday(dt) == weekday_of_ordinal(toordinal(dt))

\* (end_date - start_date).days
days_between(start_date, end_date) == toordinal(end_date) - toordinal(start_date)

(***************************************************************************)
(* Lines of a trip.                                                        *)
(*                                                                         *)
(* An EFFECTIVE line is modelled by what the regular expressions of        *)
(* get_effective_dates can find in it: its day-of-week tokens, in order,   *)
(* and the form of its date text:                                          *)
(*   "ONLY"        MMMdd ONLY          (m1, d1)                            *)
(*   "RANGE_DOT"   MMMdd-MMM. dd       (m1, d1, m2, d2)                    *)
(*   "RANGE_NODOT" MMMdd-MMM dd        (m1, d1, m2, d2), no period         *)
(*   "RANGE_DAY"   MMMdd-dd            (m1, d1, d2)                        *)
(*   "NONE"        no date text                                            *)
(* An EXCEPT line is the sequence of its 'MMM DD' entries.                 *)
(***************************************************************************)
EffectiveLine(form, dows, m1, d1, m2, d2) ==
    [kind |-> "EFFECTIVE", form |-> form, dows |-> dows,
     m1 |-> m1, d1 |-> d1, m2 |-> m2, d2 |-> d2]

ExceptLine(dates) == [kind |-> "EXCEPT", dates |-> dates]

month_map ==
    [JAN |-> 1, FEB |-> 2, MAR |-> 3, APR |-> 4, MAY |-> 5, JUN |-> 6,
     JUL |-> 7, AUG |-> 8, SEP |-> 9, OCT |-> 10, NOV |-> 11, DEC |-> 12]

dow_map == [MO |-> 0, TU |-> 1, WE |-> 2, TH |-> 3, FR |-> 4, SA |-> 5, SU |-> 6]

\* the last line of trip_lines of the given kind, or the empty string
LastLineOfKind(trip_lines, kind, none) ==
    LET I == {i \in 1..Len(trip_lines) : trip_lines[i].kind = kind}
    IN  IF I = {} THEN none
        ELSE trip_lines[CHOOSE i \in I : \A j \in I : j <= i]

NoLine == [kind |-> ""]

(***************************************************************************)
(* get_effective_dates                                                     *)
(***************************************************************************)
EffectiveResult(days_of_week, start_date, end_date, occurrences) ==
    [days_of_week |-> days_of_week, start_date |-> start_date,
     end_date |-> end_date, occurrences |-> occurrences]

\* only_match: the 'MMM## ONLY' pattern
only_match(header_line) == header_line.form = "ONLY"

\* the first two range patterns, both 'MMM##-MMM. ##' with the period
range_match_4(header_line) == header_line.form = "RANGE_DOT"

\* the third range pattern, 'MMM##-##'
range_match_3(header_line) == header_line.form = "RANGE_DAY"

\* the year of an EXCEPT date
except_year(month_num, bid_year) == IF month_num >= 10 THEN 2025 ELSE 2026

\* effective_only without the check of the date's weekday
effective_only_any_weekday(header_line, days_of_week, bid_year) ==
    LET date == datetime(bid_year, month_map[header_line.m1], header_line.d1)
    IN  IF date = ValueError
        THEN EffectiveResult(days_of_week, None, None, 1)
        ELSE EffectiveResult(days_of_week, date, date, 1)

\* effective_only without the try around datetime(...): the ValueError of an
\* impossible date reaches the caller
effective_only_uncaught(header_line, days_of_week, bid_year) ==
    LET date == datetime(bid_year, month_map[header_line.m1], header_line.d1)
    IN  IF date = ValueError
        THEN ValueError
        ELSE IF days_of_week = <<>>
                \/ \E i \in 1..Len(days_of_week) :
                       dow_map[days_of_week[i]] = weekday(date)
             THEN EffectiveResult(days_of_week, date, date, 1)
             ELSE EffectiveResult(days_of_week, date, date, 0)

\* the branch taken for a 'MMM## ONLY' header
effective_only(header_line, days_of_week, bid_year) ==
    LET month_num == month_map[header_line.m1]
        year == bid_year
        date == datetime(year, month_num, header_line.d1)
    IN  IF date = ValueError
        THEN EffectiveResult(days_of_week, None, None, 1)
        ELSE IF days_of_week # <<>>
             THEN IF \E i \in 1..Len(days_of_week) :
                        dow_map[days_of_week[i]] = weekday(date)
                  THEN EffectiveResult(days_of_week, date, date, 1)
                  ELSE EffectiveResult(days_of_week, date, date, 0)
             ELSE EffectiveResult(days_of_week, date, date, 1)

\* range_dates without the year rollover
range_dates_no_rollover(header_line, bid_year) ==
    LET end_month == IF header_line.form = "RANGE_DOT"
                     THEN header_line.m2 ELSE header_line.m1
        start_date == datetime(bid_year, month_map[header_line.m1], header_line.d1)
        end_date == datetime(bid_year, month_map[end_month], header_line.d2)
    IN  IF start_date = ValueError \/ end_date = ValueError
        THEN <<ValueError, ValueError>>
        ELSE <<start_date, end_date>>

\* the dates of the range the header gives: <<start_date, end_date>>, or
\* <<ValueError, ValueError>> when either is impossible
range_dates(header_line, bid_year) ==
    IF range_match_4(header_line)
    THEN LET start_month_num == month_map[header_line.m1]
             end_month_num == month_map[header_line.m2]
             start_year == bid_year
             end_year == IF end_month_num < start_month_num
                         THEN start_year + 1 ELSE bid_year
             start_date == datetime(start_year, start_month_num, header_line.d1)
             end_date == datetime(end_year, end_month_num, header_line.d2)
         IN  IF start_date = ValueError \/ end_date = ValueError
             THEN <<ValueError, ValueError>>
             ELSE <<start_date, end_date>>
    ELSE LET month_num == month_map[header_line.m1]
             year == bid_year
             start_date == datetime(year, month_num, header_line.d1)
             end_date == datetime(year, month_num, header_line.d2)
         IN  IF start_date = ValueError \/ end_date = ValueError
             THEN <<ValueError, ValueError>>
             ELSE <<start_date, end_date>>

\* the ordinals of the dates from start_date to end_date whose weekday is in
\* target_dows, in order
occurrence_dates(start_date, end_date, target_dows) ==
    LET s == toordinal(start_date)
        e == toordinal(end_date)
        all == [i \in 1..(e - s + 1) |-> s + i - 1]
        hit(n) == weekday_of_ordinal(n) \in Range(target_dows)
    IN  IF e < s THEN <<>> ELSE SelectSeq(all, hit)

\* the decrements of a loop that applies each exception date once
except_decrements_distinct(except_line, occ_dates, bid_year) ==
    IF except_line = NoLine THEN 0
    ELSE LET date_of(e) == datetime(except_year(month_map[e.m], bid_year),
                                    month_map[e.m], e.d)
             hit == {date_of(e) : e \in Range(except_line.dates)} \ {ValueError}
         IN  Cardinality({d \in hit : toordinal(d) \in Range(occ_dates)})

\* how often the loop over the EXCEPT entries decrements occurrences
except_decrements(except_line, occ_dates, bid_year) ==
    IF except_line = NoLine THEN 0
    ELSE LET hit(i) ==
                 LET month_num == month_map[except_line.dates[i].m]
                     year == except_year(month_num, bid_year)
                     except_date == datetime(year, month_num, except_line.dates[i].d)
                 IN  /\ except_date # ValueError
                     /\ toordinal(except_date) \in Range(occ_dates)
         IN  Cardinality({i \in 1..Len(except_line.dates) : hit(i)})

\* the count of the occurrences of a resolved range
count_occurrences(days_of_week, start_date, end_date, except_line, bid_year) ==
    LET target_dows == [i \in 1..Len(days_of_week) |-> dow_map[days_of_week[i]]]
    IN  IF target_dows = <<>>
        THEN EffectiveResult(days_of_week, start_date, end_date,
                             days_between(start_date, end_date) + 1)
        ELSE LET occ == occurrence_dates(start_date, end_date, target_dows)
             IN  EffectiveResult(days_of_week, start_date, end_date,
                     Len(occ) - except_decrements(except_line, occ, bid_year))

get_effective_dates(trip_lines, bid_year) ==
    LET header_line == LastLineOfKind(trip_lines, "EFFECTIVE", NoLine)
        except_line == LastLineOfKind(trip_lines, "EXCEPT", NoLine)
    IN  IF header_line = NoLine
        THEN EffectiveResult(<<>>, None, None, 1)
        ELSE LET days_of_week == header_line.dows
             IN  IF only_match(header_line)
                 THEN effective_only(header_line, days_of_week, bid_year)
                 ELSE IF ~(range_match_4(header_line) \/ range_match_3(header_line))
                      THEN EffectiveResult(days_of_week, None, None, 1)
                      ELSE LET r == range_dates(header_line, bid_year)
                           IN  IF r[1] = ValueError
                               THEN EffectiveResult(days_of_week, None, None, 1)
                               ELSE count_occurrences(days_of_week, r[1], r[2],
                                                      except_line, bid_year)

(***************************************************************************)
(* Tokens and lines of the body of a trip.                                 *)
(*                                                                         *)
(* line.split() of a duty line is the sequence of its tokens:              *)
(*   Apt("ATL")        a 3-letter upper-case airport code                  *)
(*   Time(3, 0, TRUE)  a 4-digit time '0300', here with the trailing '*'   *)
(*   Num(123)          a flight number of fewer than 4 digits              *)
(*   Blk(237)          a block time '2.37', in hundredths                  *)
(*   Word("DH")        any other word                                      *)
(* A duty line (kind "LEG") has the content of its marker column           *)
(* line[1:4].strip() ("" when blank), its length len(line) and its tokens  *)
(* after the marker.  Lines of the other kinds hold no marker letter and   *)
(* no airport or time token.                                               *)
(***************************************************************************)
Apt(v) == [t |-> "apt", v |-> v]

Time(hh, mm, star) == [t |-> "time", hh |-> hh, mm |-> mm, star |-> star]

Num(n) == [t |-> "num", n |-> n]

Blk(b) == [t |-> "blk", b |-> b]

Word(v) == [t |-> "word", v |-> v]

LegLine(day, len, tokens) ==
    [kind |-> "LEG", day |-> day, len |-> len, tokens |-> tokens]

\* 'TOTAL CREDIT <token>': the token after CREDIT is v hundredths of an hour
\* (v = -1: not a number), followed by 'TL' or not
CreditLine(v, tl) == [kind |-> "CREDIT", v |-> v, tl |-> tl]

\* a line whose trimmed content starts with '---'
SepLine == [kind |-> "SEP"]

\* any other text
TextLine == [kind |-> "TEXT"]

\* '#4527' or '#L832': a line that starts with '#', then an optional
\* capital letter (letter = "" when there is none), then digits
NumberLine(letter, digits) ==
    [kind |-> "NUMBER", letter |-> letter, digits |-> digits]

\* 'TOTAL PAY <token> ...': the token after PAY, pay, is
\*   [form |-> "colon", h |-> 12, m |-> 30]   '12:30' or '12:30TL'
\*   [form |-> "decimal", h |-> 12, m |-> 50] '12.50' or '12.50TL'
\*   [form |-> "bad", h |-> 0, m |-> 0]       not a number
\* and sit, edp, hol, carve are the hundredths printed before the suffixes
\* SIT, EDP, HOL and CARVE (-1: no such token)
PayLine(pay, sit, edp, hol, carve) ==
    [kind |-> "PAY", pay |-> pay, sit |-> sit, edp |-> edp, hol |-> hol,
     carve |-> carve]

\* Python's None where a number or a string is expected
NoneNum == -1

NoneStr == ""

\* decimal hours are counted in 1/300 of an hour, the unit in which both a
\* value printed in hundredths of an hour and a number of minutes are whole
hours_of_hundredths(v) == v * 3

hours_of_minutes(m) == m * 5

DayLetters == {"A", "B", "C", "D", "E"}

\* len(line)
line_len(line) == IF line.kind = "LEG" THEN line.len ELSE 40

\* line[1:4].strip()
day_col(line) == IF line.kind = "LEG" THEN line.day ELSE ""

\* line.split()
parts_of(line) ==
    IF line.kind # "LEG" THEN <<>>
    ELSE IF line.day # "" THEN <<Word(line.day)>> \o line.tokens
    ELSE line.tokens

\* len(p) == 3 and p.isalpha()
is_airport(p) == p.t = "apt"

\* len(p) == 4 and p.isdigit(), for a token as printed (a trailing '*' fails)
is_time(p) == p.t = "time" /\ ~p.star

\* p.rstrip('*')
rstrip_star(p) == IF p.t = "time" THEN [p EXCEPT !.star = FALSE] ELSE p

(***************************************************************************)
(* determine_trip_length_with_details                                      *)
(***************************************************************************)
\* the test of a 4-token window at (1-based) position i
is_leg_window(parts, i) ==
    /\ is_airport(parts[i])
    /\ is_time(rstrip_star(parts[i + 1]))
    /\ is_airport(parts[i + 2])
    /\ is_time(rstrip_star(parts[i + 3]))

\* the windows the while loop accepts from position i on, as printed
RECURSIVE leg_windows(_, _)
leg_windows(parts, i) ==
    IF i + 3 > Len(parts) THEN <<>>
    ELSE IF is_leg_window(parts, i)
         THEN <<SubSeq(parts, i, i + 3)>> \o leg_windows(parts, i + 4)
         ELSE leg_windows(parts, i + 1)

\* the tuple appended to flight_legs: (part1, dep_time, part3, arr_time)
flight_leg(w) ==
    [dep_airport |-> w[1].v, dep_time |-> rstrip_star(w[2]),
     arr_airport |-> w[3].v, arr_time |-> rstrip_star(w[4])]

\* the legs appended for one line
line_legs(line) ==
    IF line_len(line) > 30
    THEN LET w == leg_windows(parts_of(line), 1)
         IN  [k \in 1..Len(w) |-> flight_leg(w[k])]
    ELSE <<>>

day_to_length == [A |-> 1, B |-> 2, C |-> 3, D |-> 4, E |-> 5]

\* a variant of the loop in which a line without a letter does not inherit
\* the letter of the line before it
RECURSIVE walk_lines_without_inheritance(_, _, _)
walk_lines_without_inheritance(trip_lines, k, st) ==
    IF k > Len(trip_lines) THEN st
    ELSE LET line == trip_lines[k]
         IN  IF line_len(line) < 10
             THEN walk_lines_without_inheritance(trip_lines, k + 1, st)
             ELSE LET letter == IF day_col(line) \in DayLetters
                                THEN day_col(line) ELSE ""
                      last == IF day_col(line) \in DayLetters
                              THEN day_col(line) ELSE st.last_day_letter
                      legs == line_legs(line)
                  IN  walk_lines_without_inheritance(trip_lines, k + 1,
                        [last_day_letter |-> last,
                         current_day_letter |-> letter,
                         legs_by_day |->
                             IF letter # ""
                             THEN [st.legs_by_day EXCEPT
                                      ![letter] = @ + Len(legs)]
                             ELSE st.legs_by_day,
                         flight_legs |-> st.flight_legs \o legs])

\* the loop over the lines: last_day_letter ("" is None), legs_by_day (a
\* missing key counts 0) and flight_legs after the lines from k on
RECURSIVE walk_lines(_, _, _)
walk_lines(trip_lines, k, st) ==
    IF k > Len(trip_lines) THEN st
    ELSE LET line == trip_lines[k]
         IN  IF line_len(line) < 10 THEN walk_lines(trip_lines, k + 1, st)
             ELSE LET letter == IF day_col(line) \in DayLetters
                                THEN day_col(line) ELSE st.current_day_letter
                      last == IF day_col(line) \in DayLetters
                              THEN day_col(line) ELSE st.last_day_letter
                      legs == line_legs(line)
                  IN  walk_lines(trip_lines, k + 1,
                        [last_day_letter |-> last,
                         current_day_letter |-> letter,
                         legs_by_day |->
                             IF letter # ""
                             THEN [st.legs_by_day EXCEPT
                                      ![letter] = @ + Len(legs)]
                             ELSE st.legs_by_day,
                         flight_legs |-> st.flight_legs \o legs])

\* a variant that tests every leg, not the last one
redeye_extension_any_leg(flight_legs) ==
    IF \E k \in 1..Len(flight_legs) :
           flight_legs[k].dep_time.hh >= 20 /\ flight_legs[k].arr_time.hh >= 2
    THEN 1 ELSE 0

\* the increment of num_days for a red-eye on the last leg
redeye_extension(flight_legs) ==
    IF flight_legs # <<>>
    THEN LET dep_hour == flight_legs[Len(flight_legs)].dep_time.hh
             arr_hour == flight_legs[Len(flight_legs)].arr_time.hh
         IN  IF dep_hour >= 20 /\ arr_hour >= 2 THEN 1 ELSE 0
    ELSE 0

determine_trip_length_with_details(trip_lines) ==
    LET st == walk_lines(trip_lines, 1,
                  [last_day_letter |-> "", current_day_letter |-> "",
                   legs_by_day |-> [l \in DayLetters |-> 0],
                   flight_legs |-> <<>>])
        num_days == IF st.last_day_letter = "" THEN 0
                    ELSE day_to_length[st.last_day_letter]
        last_day_legs == IF st.last_day_letter = "" THEN 0
                         ELSE st.legs_by_day[st.last_day_letter]
    IN  [num_days |-> num_days + redeye_extension(st.flight_legs),
         last_day_legs |-> last_day_legs,
         flight_legs |-> st.flight_legs]

(***************************************************************************)
(* has_redeye_flight, calculate_report_time, calculate_release_time        *)
(***************************************************************************)
\* whether the loop returns True at this leg
leg_is_redeye(leg) ==
    LET dep_minutes == leg.dep_time.hh * 60 + leg.dep_time.mm
        arr_minutes == leg.arr_time.hh * 60 + leg.arr_time.mm
        wocl_start == 2 * 60
        wocl_end == 5 * 60 + 59
        is_overnight == \/ leg.arr_time.star
                        \/ dep_minutes >= 18 * 60 /\ arr_minutes < 12 * 60
    IN  /\ is_overnight
        /\ \/ wocl_start <= arr_minutes /\ arr_minutes <= wocl_end
           \/ /\ dep_minutes >= 20 * 60
              /\ wocl_start <= arr_minutes /\ arr_minutes <= 8 * 60

has_redeye_flight(flight_legs) ==
    \E k \in 1..Len(flight_legs) : leg_is_redeye(flight_legs[k])

\* a variant without the wrap over midnight
calculate_report_time_no_wrap(first_dep_time) ==
    first_dep_time.hh * 60 + first_dep_time.mm - 60

calculate_report_time(first_dep_time) ==
    LET total_minutes == first_dep_time.hh * 60 + first_dep_time.mm - 60
    IN  IF total_minutes < 0 THEN total_minutes + 1440 ELSE total_minutes

calculate_release_time(last_arr_time) ==
    LET total_minutes == last_arr_time.hh * 60 + last_arr_time.mm + 45
    IN  IF total_minutes >= 1440 THEN total_minutes - 1440 ELSE total_minutes

(***************************************************************************)
(* The extractors of extract_detailed_trip_info.                           *)
(***************************************************************************)
BASE_MAPPING ==
    [ATL |-> "ATL", BOS |-> "BOS", JFK |-> "NYC", LGA |-> "NYC", EWR |-> "NYC",
     DTW |-> "DTW", SLC |-> "SLC", MSP |-> "MSP", SEA |-> "SEA", LAX |-> "LAX",
     LGB |-> "LAX", ONT |-> "LAX"]

\* BASE_MAPPING.get(first_airport, 'UNKNOWN')
base_of(first_airport) ==
    IF first_airport \in DOMAIN BASE_MAPPING THEN BASE_MAPPING[first_airport]
    ELSE "UNKNOWN"

\* the first element of the sequence s that satisfies Test, or none
FirstWhere(s, Test(_), none) ==
    LET I == {i \in 1..Len(s) : Test(s[i])}
    IN  IF I = {} THEN none ELSE s[CHOOSE i \in I : \A j \in I : i <= j]

get_first_departure_airport(trip_lines) ==
    LET has_airport(line) ==
            /\ line_len(line) >= 10
            /\ day_col(line) \in DayLetters
            /\ \E i \in 1..Len(parts_of(line)) : is_airport(parts_of(line)[i])
        line == FirstWhere(trip_lines, has_airport, NoLine)
    IN  IF line = NoLine THEN NoneStr
        ELSE FirstWhere(parts_of(line), is_airport, Word("")).v

\* the trip number is the pair of its letter and its digits; None is <<>>
get_trip_number(trip_lines) ==
    LET numbered(line) == line.kind = "NUMBER"
        line == FirstWhere(trip_lines, numbered, NoLine)
    IN  IF line = NoLine THEN <<>> ELSE <<line.letter, line.digits>>

get_total_credit(trip_lines) ==
    LET parsed(line) == line.kind = "CREDIT" /\ line.tl /\ line.v # -1
        line == FirstWhere(trip_lines, parsed, NoLine)
    IN  IF line = NoLine THEN NoneNum ELSE hours_of_hundredths(line.v)

parse_time_to_decimal(pay) ==
    CASE pay.form = "colon" -> hours_of_minutes(pay.h * 60 + pay.m)
      [] pay.form = "decimal" -> hours_of_hundredths(pay.h * 100 + pay.m)
      [] OTHER -> NoneNum

\* float(part[:-3]) of the token with the suffix, None without such a token
pay_component(v) == IF v = -1 THEN NoneNum ELSE hours_of_hundredths(v)

NoPay ==
    [total_pay |-> NoneNum, sit |-> NoneNum, edp |-> NoneNum, hol |-> NoneNum,
     carve |-> NoneNum]

get_total_pay(trip_lines) ==
    LET is_pay(line) == line.kind = "PAY"
        line == FirstWhere(trip_lines, is_pay, NoLine)
    IN  IF line = NoLine THEN NoPay
        ELSE [total_pay |-> parse_time_to_decimal(line.pay),
              sit |-> pay_component(line.sit),
              edp |-> pay_component(line.edp),
              hol |-> pay_component(line.hol),
              carve |-> pay_component(line.carve)]

\* the block time found after the window that ends at parts[i + 1]: the first
\* token with a '.' among the next three whose value is in 0.1..15.0
block_after(parts, i) ==
    LET last == IF i + 4 <= Len(parts) THEN i + 4 ELSE Len(parts)
        J == {j \in (i + 2)..last :
                 parts[j].t = "blk" /\ 10 <= parts[j].b /\ parts[j].b <= 1500}
    IN  IF J = {} THEN <<>>
        ELSE <<parts[CHOOSE j \in J : \A k \in J : j <= k].b>>

\* the block times of one line, from (1-based) position i on
RECURSIVE line_block_times(_, _)
line_block_times(parts, i) ==
    IF i > Len(parts) - 1 THEN <<>>
    ELSE (IF /\ i >= 3
             /\ is_airport(parts[i - 2])
             /\ is_time(parts[i - 1])
             /\ is_airport(parts[i])
             /\ is_time(rstrip_star(parts[i + 1]))
          THEN block_after(parts, i) ELSE <<>>)
         \o line_block_times(parts, i + 1)

\* the block times of the trip, H.MM in hundredths
RECURSIVE get_flight_block_times(_)
get_flight_block_times(trip_lines) ==
    IF trip_lines = <<>> THEN <<>>
    ELSE (IF line_len(Head(trip_lines)) < 10 THEN <<>>
          ELSE line_block_times(parts_of(Head(trip_lines)), 1))
         \o get_flight_block_times(Tail(trip_lines))

get_last_leg_is_dh(trip_lines) ==
    LET has_leg(line) ==
            /\ line_len(line) >= 10
            /\ \E i \in 1..(Len(parts_of(line)) - 3) :
                   is_leg_window(parts_of(line), i)
        I == {i \in 1..Len(trip_lines) : has_leg(trip_lines[i])}
    IN  IF I = {} THEN FALSE
        ELSE LET line == trip_lines[CHOOSE i \in I : \A j \in I : j <= i]
             IN  \E k \in 1..Len(parts_of(line)) : parts_of(line)[k] = Word("DH")

\* the default of the bid_year parameter
DefaultBidYear == 2026

extract_detailed_trip_info(trip_lines) ==
    LET d == determine_trip_length_with_details(trip_lines)
        first_airport == get_first_departure_airport(trip_lines)
        pay_data == get_total_pay(trip_lines)
        flight_legs == d.flight_legs
    IN  [trip_number |-> get_trip_number(trip_lines),
         base |-> IF first_airport # NoneStr THEN base_of(first_airport)
                  ELSE "UNKNOWN",
         length |-> d.num_days,
         days_of_week |->
             get_effective_dates(trip_lines, DefaultBidYear).days_of_week,
         report_time_minutes |->
             IF flight_legs # <<>>
             THEN calculate_report_time(flight_legs[1].dep_time)
             ELSE NoneNum,
         release_time_minutes |->
             IF flight_legs # <<>>
             THEN calculate_release_time(flight_legs[Len(flight_legs)].arr_time)
             ELSE NoneNum,
         total_legs |-> Len(flight_legs),
         last_day_legs |-> d.last_day_legs,
         total_credit |-> get_total_credit(trip_lines),
         has_redeye |-> has_redeye_flight(flight_legs),
         last_leg_dh |-> get_last_leg_is_dh(trip_lines),
         total_pay |-> pay_data.total_pay,
         sit |-> pay_data.sit,
         edp |-> pay_data.edp,
         hol |-> pay_data.hol,
         carve |-> pay_data.carve]

(***************************************************************************)
(* parse_trips                                                             *)
(***************************************************************************)
\* the loop over the lines from k on: trips, current_trip and in_trip
RECURSIVE parse_lines(_, _, _, _, _)
parse_lines(lines, k, trips, current_trip, in_trip) ==
    IF k > Len(lines) THEN trips
    ELSE IF lines[k].kind = "EFFECTIVE"
         THEN parse_lines(lines, k + 1, trips, <<lines[k]>>, TRUE)
         ELSE IF in_trip
              THEN IF lines[k].kind = "SEP"
                   THEN parse_lines(lines, k + 1,
                            Append(trips, Append(current_trip, lines[k])),
                            <<>>, FALSE)
                   ELSE parse_lines(lines, k + 1, trips,
                            Append(current_trip, lines[k]), TRUE)
              ELSE parse_lines(lines, k + 1, trips, current_trip, in_trip)

parse_trips(file_content) == parse_lines(file_content, 1, <<>>, <<>>, FALSE)

(***************************************************************************)
(* Split trips                                                             *)
(***************************************************************************)
prev_month_map ==
    [January |-> "DEC", February |-> "JAN", March |-> "FEB", April |-> "MAR",
     May |-> "APR", June |-> "MAY", July |-> "JUN", August |-> "JUL",
     September |-> "AUG", October |-> "SEP", November |-> "OCT",
     December |-> "NOV"]

get_previous_month_abbr(bid_month) ==
    IF bid_month \in DOMAIN prev_month_map THEN prev_month_map[bid_month]
    ELSE ""

\* the month abbreviations printed in an EFFECTIVE line
months_in(header_line) ==
    CASE header_line.form \in {"ONLY", "RANGE_DAY"} -> {header_line.m1}
      [] header_line.form \in {"RANGE_DOT", "RANGE_NODOT"} ->
            {header_line.m1, header_line.m2}
      [] OTHER -> {}

\* the indices of the lines with a duty-day letter in the marker column
day_line_indices(trip_lines) ==
    {i \in 1..Len(trip_lines) :
        line_len(trip_lines[i]) > 3 /\ day_col(trip_lines[i]) \in DayLetters}

is_split_trip(trip_lines, bid_month) ==
    LET is_effective(line) == line.kind = "EFFECTIVE"
        effective_line == FirstWhere(trip_lines, is_effective, NoLine)
        prev_month == get_previous_month_abbr(bid_month)
        D == day_line_indices(trip_lines)
    IN  IF effective_line = NoLine THEN FALSE
        ELSE IF prev_month = "" \/ prev_month \notin months_in(effective_line)
             THEN FALSE
             ELSE \E i \in D, j \in D :
                      i # j /\ day_col(trip_lines[i]) = day_col(trip_lines[j])

\* 'TOTAL CREDIT' in line or 'TOTAL PAY' in line
is_total_line(line) == line.kind \in {"CREDIT", "PAY"}

\* the result (section1, section2, split_index); split_index is the 0-based
\* index of the code
SplitResult(section1, section2, split_index) ==
    [section1 |-> section1, section2 |-> section2, split_index |-> split_index]

split_trip_into_sections(trip_lines) ==
    LET D == day_line_indices(trip_lines)
        \* the day lines whose letter is on an earlier day line
        R == {i \in D : \E j \in D :
                 j < i /\ day_col(trip_lines[j]) = day_col(trip_lines[i])}
    IN  IF D = {} \/ R = {} THEN SplitResult(trip_lines, <<>>, -1)
        ELSE LET n == Len(trip_lines)
                 split == CHOOSE i \in R : \A j \in R : i <= j
                 tail == SubSeq(trip_lines, split, n)
                 section1 == SubSeq(trip_lines, 1, split - 1)
                             \o SelectSeq(tail, is_total_line)
                 C == {i \in split..n : trip_lines[i].kind = "CREDIT"}
                 section2_end == IF C = {} THEN n + 1
                                 ELSE CHOOSE i \in C : \A j \in C : i <= j
                 first_day_line == CHOOSE i \in D : \A j \in D : i <= j
                 header_lines == SubSeq(trip_lines, 1, first_day_line - 1)
                 section2 == header_lines
                             \o SubSeq(trip_lines, split, section2_end - 1)
             IN  SplitResult(section1, section2, split - 1)

\* hmm_to_decimal: H.MM to hours, here from hundredths
hmm_to_decimal(hmm) ==
    LET hours == hmm \div 100
        minutes == hmm % 100
    IN  hours_of_minutes(hours * 60 + minutes)

RECURSIVE Sum(_)
Sum(s) == IF s = <<>> THEN 0 ELSE Head(s) + Sum(Tail(s))

\* 5.15 hours
MinDailyCredit == hours_of_hundredths(515)

calculate_credit_for_section(trip_lines) ==
    LET block_times == get_flight_block_times(trip_lines)
        total_blk == Sum([k \in 1..Len(block_times) |->
                              hmm_to_decimal(block_times[k])])
        day_letters == {day_col(trip_lines[i]) : i \in day_line_indices(trip_lines)}
        num_days == Cardinality(day_letters)
        min_daily_credit == MinDailyCredit * num_days
    IN  Max(total_blk, min_daily_credit)

(***************************************************************************)
(* get_detailed_trips                                                      *)
(***************************************************************************)
\* f"{trip_num}-1 ({base})", or f"{trip_num}-1" for the base UNKNOWN; a
\* trip number None prints as 'N/A'
section_number(trip_number, suffix, base) ==
    (IF trip_number # <<>> THEN trip_number ELSE <<"", "N/A">>)
    \o (IF base # "UNKNOWN" THEN <<suffix, base>> ELSE <<suffix>>)

\* trip_info with the key occurrences set
with_occurrences(trip_info, occurrences) ==
    [k \in DOMAIN trip_info \cup {"occurrences"} |->
        IF k = "occurrences" THEN occurrences ELSE trip_info[k]]

\* the entries appended for a split trip
split_entries(trip, bid_year) ==
    LET sp == split_trip_into_sections(trip)
        section1 == sp.section1
        section2 == sp.section2
    IN  IF section1 = <<>> \/ section2 = <<>> THEN <<>>
        ELSE LET first_airport_s1 == get_first_departure_airport(section1)
                 base_s1 == IF first_airport_s1 # NoneStr
                            THEN base_of(first_airport_s1) ELSE "UNKNOWN"
                 info1 == extract_detailed_trip_info(section1)
                 trip_info1 ==
                     with_occurrences(
                         [info1 EXCEPT
                             !.base = base_s1,
                             !.trip_number =
                                 section_number(info1.trip_number, "-1", base_s1)],
                         1)
                 info2 == extract_detailed_trip_info(section2)
                 total_occurrences ==
                     get_effective_dates(trip, DefaultBidYear).occurrences
                 trip_info2 ==
                     with_occurrences(
                         [info2 EXCEPT
                             !.base = base_s1,
                             !.trip_number =
                                 section_number(info2.trip_number, "-2", base_s1),
                             !.total_credit = calculate_credit_for_section(section2),
                             !.total_pay = NoneNum,
                             !.sit = NoneNum,
                             !.edp = NoneNum,
                             !.hol = NoneNum,
                             !.carve = NoneNum],
                         Max(total_occurrences - 1, 0))
             IN  <<trip_info1, trip_info2>>

\* the entries appended for one trip of the file
trip_entries(trip, base_filter, bid_month, bid_year) ==
    LET first_airport == get_first_departure_airport(trip)
    IN  IF first_airport = NoneStr THEN <<>>
        ELSE IF base_filter # "All Bases" /\ base_of(first_airport) # base_filter
             THEN <<>>
             ELSE IF is_split_trip(trip, bid_month)
                  THEN split_entries(trip, bid_year)
                  ELSE <<with_occurrences(
                             extract_detailed_trip_info(trip),
                             get_effective_dates(trip, bid_year).occurrences)>>

RECURSIVE detailed_of(_, _, _, _)
detailed_of(trips, base_filter, bid_month, bid_year) ==
    IF trips = <<>> THEN <<>>
    ELSE trip_entries(Head(trips), base_filter, bid_month, bid_year)
         \o detailed_of(Tail(trips), base_filter, bid_month, bid_year)

get_detailed_trips(file_content, base_filter, bid_month, bid_year) ==
    detailed_of(parse_trips(file_content), base_filter, bid_month, bid_year)

(***************************************************************************)
(* analyze_file                                                            *)
(***************************************************************************)
\* Python's ZeroDivisionError, raised by a division
ZeroDivisionError == [num |-> 0, den |-> 0]

\* the quotient n / d as the fraction it is, ZeroDivisionError for d = 0
Frac(n, d) == IF d = 0 THEN ZeroDivisionError ELSE [num |-> n, den |-> d]

\* the int 0 of an else branch
Zero == [num |-> 0, den |-> 1]

Lengths == 1..5

\* F of the value of x, which is worked out once
At(x, F(_)) == CHOOSE r \in {F(v) : v \in {x}} : TRUE

\* the sum of f over the elements of a sequence
SumOver(s, f(_)) == Sum([k \in 1..Len(s) |-> f(s[k])])

\* what the loop body reads off one trip
trip_reading(trip, bid_year) ==
    LET first_airport == get_first_departure_airport(trip)
        details == determine_trip_length_with_details(trip)
        flight_legs == details.flight_legs
    IN  [first_airport |-> first_airport,
         base |-> base_of(first_airport),
         occurrences |-> get_effective_dates(trip, bid_year).occurrences,
         length |-> details.num_days,
         last_day_legs |-> details.last_day_legs,
         credit |-> get_total_credit(trip),
         redeye |-> has_redeye_flight(flight_legs),
         has_legs |-> flight_legs # <<>>,
         report_minutes |->
             IF flight_legs # <<>>
             THEN calculate_report_time(flight_legs[1].dep_time) ELSE NoneNum,
         release_minutes |->
             IF flight_legs # <<>>
             THEN calculate_release_time(flight_legs[Len(flight_legs)].arr_time)
             ELSE NoneNum]

\* a variant that also keeps the trips whose length is not a key of
\* trip_counts
RECURSIVE folded_readings_of_any_length(_, _, _)
folded_readings_of_any_length(trips, base_filter, bid_year) ==
    IF trips = <<>> THEN <<>>
    ELSE LET r == trip_reading(Head(trips), bid_year)
             kept == /\ r.first_airport # NoneStr
                     /\ base_filter = "All Bases" \/ r.base = base_filter
         IN  (IF kept THEN <<r>> ELSE <<>>)
             \o folded_readings_of_any_length(Tail(trips), base_filter, bid_year)

\* the trips the loop does not skip with continue
RECURSIVE folded_readings(_, _, _)
folded_readings(trips, base_filter, bid_year) ==
    IF trips = <<>> THEN <<>>
    ELSE LET r == trip_reading(Head(trips), bid_year)
             kept == /\ r.first_airport # NoneStr
                     /\ base_filter = "All Bases" \/ r.base = base_filter
                     /\ r.length \in Lengths
         IN  (IF kept THEN <<r>> ELSE <<>>)
             \o folded_readings(Tail(trips), base_filter, bid_year)

folded_trips(file_content, base_filter, bid_year) ==
    folded_readings(parse_trips(file_content), base_filter, bid_year)

\* a variant that counts the commutability of short trips whatever the flag
commute_eligible_any_length(r, include_short_trips_commute) == r.has_legs

\* flight_legs and (include_short_trips_commute or length >= 3)
commute_eligible(r, include_short_trips_commute) ==
    r.has_legs /\ (include_short_trips_commute \/ r.length >= 3)

\* the counters after the loop
analyze_counters(file_content, base_filter, front_commute_minutes, back_commute_minutes, include_short_trips_commute, bid_year) ==
    LET counters(folded) ==
            LET occ(r) == r.occurrences
                of_length(l, Test(_)) ==
                    LET part(r) == IF r.length = l /\ Test(r) THEN r.occurrences ELSE 0
                    IN  SumOver(folded, part)
                any(r) == TRUE
                single(r) == r.last_day_legs = 1
                redeye(r) == r.redeye
                commutes(r) == commute_eligible(r, include_short_trips_commute)
                front_ok(r) == commutes(r) /\ r.report_minutes >= front_commute_minutes
                back_ok(r) == commutes(r) /\ r.release_minutes <= back_commute_minutes
                both_ok(r) == front_ok(r) /\ back_ok(r)
                credit_of(l) ==
                    LET part(r) == IF r.length = l /\ r.credit # NoneNum
                                   THEN r.credit * r.occurrences ELSE 0
                    IN  SumOver(folded, part)
            IN  [total_trips |-> SumOver(folded, occ),
                 trip_counts |-> [l \in Lengths |-> of_length(l, any)],
                 single_leg_counts |-> [l \in Lengths |-> of_length(l, single)],
                 total_credit_by_length |-> [l \in Lengths |-> credit_of(l)],
                 redeye_counts |-> [l \in Lengths |-> of_length(l, redeye)],
                 commute_front |-> [l \in Lengths |-> of_length(l, front_ok)],
                 commute_back |-> [l \in Lengths |-> of_length(l, back_ok)],
                 commute_both |-> [l \in Lengths |-> of_length(l, both_ok)]]
    IN  At(folded_trips(file_content, base_filter, bid_year), counters)

\* x / d without the test of d
unguarded(n, d) == Frac(n, d)

\* x / d if d > 0 else 0
guarded(n, d) == IF d > 0 THEN Frac(n, d) ELSE Zero

\* the sum of a per-length counter
total_of(counter) == Sum([l \in Lengths |-> counter[l]])

\* the dict analyze_file builds from the counters
analysis_result(c, include_short_trips_commute) ==
    LET total_trips == c.total_trips
        trip_counts == c.trip_counts
        avg_credit_by_length ==
            [l \in Lengths |-> guarded(c.total_credit_by_length[l], trip_counts[l])]
        total_credit == total_of(c.total_credit_by_length)
        total_days == Sum([l \in Lengths |-> l * trip_counts[l]])
        commute_trip_total ==
            IF include_short_trips_commute THEN total_trips
            ELSE trip_counts[3] + trip_counts[4] + trip_counts[5]
        pct(counter) ==
            [l \in Lengths |-> guarded(counter[l] * 100, trip_counts[l])]
    IN  [total_trips |-> total_trips,
         trip_counts |-> trip_counts,
         avg_trip_length |-> guarded(total_days, total_trips),
         single_leg_pct |-> pct(c.single_leg_counts),
         avg_credit_by_length |-> avg_credit_by_length,
         total_credit_hours |-> total_credit,
         avg_credit_per_trip |-> guarded(total_credit, total_trips),
         avg_credit_per_day_by_length |->
             [l \in Lengths |->
                 IF avg_credit_by_length[l].num * avg_credit_by_length[l].den > 0
                 THEN Frac(avg_credit_by_length[l].num,
                           avg_credit_by_length[l].den * l)
                 ELSE Zero],
         avg_credit_per_day |-> guarded(total_credit, total_days),
         redeye_pct |-> pct(c.redeye_counts),
         redeye_rate |-> guarded(total_of(c.redeye_counts) * 100, total_trips),
         front_commute_pct |-> pct(c.commute_front),
         front_commute_rate |->
             guarded(total_of(c.commute_front) * 100, commute_trip_total),
         back_commute_pct |-> pct(c.commute_back),
         back_commute_rate |->
             guarded(total_of(c.commute_back) * 100, commute_trip_total),
         both_commute_pct |-> pct(c.commute_both),
         both_commute_rate |->
             guarded(total_of(c.commute_both) * 100, commute_trip_total)]

\* the keys of the result whose value is one quotient
RateKeys ==
    {"avg_trip_length", "avg_credit_per_trip", "avg_credit_per_day",
     "redeye_rate", "front_commute_rate", "back_commute_rate",
     "both_commute_rate"}

\* the keys of the result whose value is one quotient per length
PerLengthKeys ==
    {"single_leg_pct", "avg_credit_by_length", "avg_credit_per_day_by_length",
     "redeye_pct", "front_commute_pct", "back_commute_pct", "both_commute_pct"}

\* a division of the dict raised
raises(result) ==
    \/ \E k \in RateKeys : result[k] = ZeroDivisionError
    \/ \E k \in PerLengthKeys, l \in Lengths : result[k][l] = ZeroDivisionError

analyze_file(file_content, base_filter, front_commute_minutes, back_commute_minutes, include_short_trips_commute, bid_year) ==
    LET checked(result) == IF raises(result) THEN ZeroDivisionError ELSE result
        result_of(c) == At(analysis_result(c, include_short_trips_commute), checked)
    IN  At(analyze_counters(file_content, base_filter, front_commute_minutes,
                            back_commute_minutes, include_short_trips_commute,
                            bid_year),
           result_of)

(***************************************************************************)
(* generate_staffing_heatmap                                               *)
(***************************************************************************)
\* date.fromordinal(n): the date whose toordinal() is n
fromordinal(n) ==
    LET year == CHOOSE y \in (n \div 366)..(n \div 365 + 1) :
                    DaysBeforeYear(y) < n /\ n <= DaysBeforeYear(y + 1)
        month == CHOOSE m \in 1..12 :
                     /\ DaysBeforeMonth(year, m) < n - DaysBeforeYear(year)
                     /\ n - DaysBeforeYear(year)
                            <= DaysBeforeMonth(year, m) + DaysInMonth(year, m)
    IN  [year |-> year, month |-> month,
         day |-> n - DaysBeforeYear(year) - DaysBeforeMonth(year, month)]

\* date + timedelta(days=n)
add_days(dt, n) == fromordinal(toordinal(dt) + n)

heat_month_map ==
    [January |-> 1, February |-> 2, March |-> 3, April |-> 4, May |-> 5,
     June |-> 6, July |-> 7, August |-> 8, September |-> 9, October |-> 10,
     November |-> 11, December |-> 12]

\* month_map.get(bid_month, 1)
heat_month_num(bid_month) ==
    IF bid_month \in DOMAIN heat_month_map THEN heat_month_map[bid_month] ELSE 1

\* the trip number of the loop at lines 217-223: the digits that follow '#'
\* on the first line that starts with '#' and has a digit right after it
heat_trip_number(trip) ==
    LET numbered(line) == line.kind = "NUMBER" /\ line.letter = ""
        line == FirstWhere(trip, numbered, NoLine)
    IN  IF line = NoLine THEN NoneStr ELSE line.digits

\* re.match(r'\s+([A-Z])\s+\d+', line): a capital letter after leading
\* blanks, then blanks and a digit
duty_day_match(line) ==
    /\ line.kind = "LEG"
    /\ line.day # ""
    /\ line.tokens # <<>>
    /\ line.tokens[1].t \in {"num", "time", "blk"}

\* duty_days after the lines from k on, in order of first appearance
RECURSIVE heat_duty_days(_, _, _)
heat_duty_days(trip, k, duty_days) ==
    IF k > Len(trip) THEN duty_days
    ELSE heat_duty_days(trip, k + 1,
             IF duty_day_match(trip[k]) /\ trip[k].day \notin Range(duty_days)
             THEN Append(duty_days, trip[k].day) ELSE duty_days)

\* except_dates of the loop at lines 283-293
heat_except_dates(except_line, month_num, bid_year) ==
    IF except_line = NoLine THEN {}
    ELSE LET date_of(e) ==
                 LET except_month_num == month_map[e.m]
                     year_of_except == IF except_month_num < month_num /\ month_num >= 10
                                       THEN bid_year + 1 ELSE bid_year
                 IN  datetime(year_of_except, except_month_num, e.d)
         IN  {date_of(e) : e \in Range(except_line.dates)} \ {ValueError}

\* occurrence_dates of the loop at lines 296-302
heat_occurrence_dates(start_date, end_date, target_dows, except_dates) ==
    LET s == toordinal(start_date)
        e == toordinal(end_date)
        all == [i \in 1..(e - s + 1) |-> fromordinal(s + i - 1)]
        hit(current) ==
            /\ target_dows = <<>> \/ weekday(current) \in Range(target_dows)
            /\ current \notin except_dates
    IN  IF e < s THEN <<>> ELSE SelectSeq(all, hit)

\* the date on which the i-th duty day (from 0) of an occurrence is worked
duty_date_no_offset(occ_date, i) == occ_date

duty_date(occ_date, i) == add_days(occ_date, i)

\* the entries the loops at lines 305-317 append: for each occurrence date,
\* in order, one for each duty day whose date is in the bid month
occurrence_operations(occ_dates, trip_number, duty_days, month_num, bid_year) ==
    LET trip_length == Len(duty_days)
        entry(j) ==
            LET occ_date == occ_dates[(j - 1) \div trip_length + 1]
                i == (j - 1) % trip_length
            IN  [date |-> duty_date(occ_date, i),
                 trip_number |-> trip_number,
                 duty_day |-> duty_days[i + 1],
                 trip_length |-> trip_length]
        kept(e) == e.date.month = month_num /\ e.date.year = bid_year
    IN  SelectSeq([j \in 1..(Len(occ_dates) * trip_length) |-> entry(j)], kept)

\* the entries one trip adds to date_operations
trip_operations(trip, month_num, bid_year, base_filter) ==
    LET trip_number == heat_trip_number(trip)
        first_airport == get_first_departure_airport(trip)
        header_line == LastLineOfKind(trip, "EFFECTIVE", NoLine)
        except_line == LastLineOfKind(trip, "EXCEPT", NoLine)
        effective == get_effective_dates(trip, bid_year)
        duty_days == heat_duty_days(trip, 1, <<>>)
    IN  IF \/ trip_number = NoneStr
           \/ first_airport = NoneStr
           \/ base_filter # "All Bases" /\ base_of(first_airport) # base_filter
           \/ header_line = NoLine
           \/ effective.start_date = None \/ effective.end_date = None
           \/ duty_days = <<>>
        THEN <<>>
        ELSE LET target_dows == [i \in 1..Len(effective.days_of_week) |->
                                    dow_map[effective.days_of_week[i]]]
                 occ == heat_occurrence_dates(effective.start_date,
                            effective.end_date, target_dows,
                            heat_except_dates(except_line, month_num, bid_year))
             IN  occurrence_operations(occ, trip_number, duty_days,
                                       month_num, bid_year)

generate_staffing_heatmap(file_content, bid_month, bid_year, base_filter) ==
    LET trips == parse_trips(file_content)
        month_num == heat_month_num(bid_month)
        date_operations ==
            Concat([k \in 1..Len(trips) |->
                trip_operations(trips[k], month_num, bid_year, base_filter)])
        days_in_month == DaysInMonth(bid_year, month_num)
        dates == [day \in 1..days_in_month |-> datetime(bid_year, month_num, day)]
        on(date) == {k \in 1..Len(date_operations) : date_operations[k].date = date}
    IN  [dates |-> dates,
         pilot_counts |-> [day \in 1..days_in_month |-> Cardinality(on(dates[day]))],
         trip_details |->
             [day \in 1..days_in_month |->
                 {[trip_number |-> n,
                   duty_days |-> {date_operations[k].duty_day :
                                     k \in {j \in on(dates[day]) :
                                               date_operations[j].trip_number = n}}] :
                     n \in {date_operations[k].trip_number : k \in on(dates[day])}}],
         month |-> bid_month,
         year |-> bid_year]

(***************************************************************************)
(* get_base_top20_legs                                                     *)
(***************************************************************************)
\* the block time found after the window that starts at parts[i]: the first
\* token with a '.' among the next four whose value is in 0.1..15.0
block_val_after(parts, i) ==
    LET last == IF i + 7 <= Len(parts) THEN i + 7 ELSE Len(parts)
        J == {j \in (i + 4)..last :
                 parts[j].t = "blk" /\ 10 <= parts[j].b /\ parts[j].b <= 1500}
    IN  IF J = {} THEN NoneNum
        ELSE parts[CHOOSE j \in J : \A k \in J : j <= k].b

\* the tuples one line adds to legs, from (1-based) position i on:
\* (p1, p3, block_str, block_minutes), block_str being <<h, m>> for 'h:mm'
RECURSIVE line_legs_with_block(_, _)
line_legs_with_block(parts, i) ==
    IF i + 3 > Len(parts) THEN <<>>
    ELSE IF is_leg_window(parts, i)
         THEN LET block_val == block_val_after(parts, i)
                  h == block_val \div 100
                  m == block_val % 100
              IN  (IF block_val # NoneNum
                   THEN <<[dep |-> parts[i].v, arr |-> parts[i + 2].v,
                           block_str |-> <<h, m>>,
                           block_minutes |-> h * 60 + m]>>
                   ELSE <<>>)
                  \o line_legs_with_block(parts, i + 4)
         ELSE line_legs_with_block(parts, i + 1)

get_all_flight_legs_with_block(trip_lines) ==
    Concat([k \in 1..Len(trip_lines) |->
               line_legs_with_block(parts_of(trip_lines[k]), 1)])

\* the legs the loop over the trips adds to route_data, in order, each with
\* the occurrences and the base of its trip
counted_legs(trips, base, bid_year) ==
    LET of_trip(trip) ==
            LET fa == get_first_departure_airport(trip)
                occurrences == get_effective_dates(trip, bid_year).occurrences
                legs == get_all_flight_legs_with_block(trip)
                kept(leg) == base = "All Bases" \/ base_of(leg.dep) = base
                kept_legs == SelectSeq(legs, kept)
            IN  IF fa = NoneStr \/ occurrences <= 0 THEN <<>>
                ELSE [k \in 1..Len(kept_legs) |->
                         [route |-> <<kept_legs[k].dep, kept_legs[k].arr>>,
                          block_str |-> kept_legs[k].block_str,
                          block_minutes |-> kept_legs[k].block_minutes,
                          occurrences |-> occurrences,
                          trip_base |-> base_of(fa)]]
    IN  Concat([k \in 1..Len(trips) |-> of_trip(trips[k])])

\* the indices at which a key is seen for the first time, in order
first_seen(keys) ==
    LET I == {i \in 1..Len(keys) : \A j \in 1..(i - 1) : keys[j] # keys[i]}
        nth(p) == CHOOSE i \in I : Cardinality({j \in I : j < i}) = p - 1
    IN  [p \in 1..Cardinality(I) |-> nth(p)]

\* sorted(..., key=..., reverse=True): by descending key, items of equal key
\* in their order in s; the result is the sequence of the indices of s
sorted_reverse(keys) ==
    LET before(j, i) == keys[j] > keys[i] \/ (keys[j] = keys[i] /\ j < i)
        rank(i) == Cardinality({j \in 1..Len(keys) : before(j, i)})
    IN  [p \in 1..Len(keys) |-> CHOOSE i \in 1..Len(keys) : rank(i) = p - 1]

\* int(round(n / d * 100)): to the nearest integer, a half to the even one
round_pct(n, d) ==
    LET q == (n * 100) \div d
        r == (n * 100) % d
    IN  IF 2 * r > d \/ (2 * r = d /\ q % 2 = 1) THEN q + 1 ELSE q

\* route_data: the routes in the order of their first leg, each with the
\* greatest block time seen (and its text), the total of the occurrences and
\* by_base, the totals per trip base in the order of their first leg
route_data(legs) ==
    LET firsts == first_seen([k \in 1..Len(legs) |-> legs[k].route])
        entry(f) ==
            LET route == legs[f].route
                mine == {k \in 1..Len(legs) : legs[k].route = route}
                top == CHOOSE k \in mine :
                           /\ \A j \in mine : legs[j].block_minutes <= legs[k].block_minutes
                           /\ \A j \in mine : legs[j].block_minutes = legs[k].block_minutes => k <= j
                same_route(leg) == leg.route = route
                mine_legs == SelectSeq(legs, same_route)
                bases == first_seen([k \in 1..Len(mine_legs) |-> mine_legs[k].trip_base])
                count(b) == Sum([k \in 1..Len(mine_legs) |->
                                    IF mine_legs[k].trip_base = b
                                    THEN mine_legs[k].occurrences ELSE 0])
            IN  [route |-> route,
                 block_minutes |-> legs[top].block_minutes,
                 block_str |-> legs[top].block_str,
                 total |-> Sum([k \in 1..Len(mine_legs) |-> mine_legs[k].occurrences]),
                 by_base |-> [p \in 1..Len(bases) |->
                                 [base |-> mine_legs[bases[p]].trip_base,
                                  count |-> count(mine_legs[bases[p]].trip_base)]]]
    IN  [p \in 1..Len(firsts) |-> entry(firsts[p])]

\* the slice [:n]
first_n(s, n) == IF Len(s) <= n THEN s ELSE SubSeq(s, 1, n)

\* the number of routes kept
TopRoutes == 25

\* top20: the routes by descending block_minutes, cut after TopRoutes
top20_of(data) ==
    LET order == sorted_reverse([k \in 1..Len(data) |-> data[k].block_minutes])
    IN  first_n([p \in 1..Len(order) |-> data[order[p]]], TopRoutes)

\* the entry of legs_result for one route, with the crews of the base in it
leg_result(data, base) ==
    LET counts == [k \in 1..Len(data.by_base) |-> data.by_base[k].count]
        order == sorted_reverse(counts)
        top_b == data.by_base[order[1]]
        own == {k \in 1..Len(data.by_base) : data.by_base[k].base = base}
        base_cnt == IF own = {} THEN 0 ELSE data.by_base[CHOOSE k \in own : TRUE].count
    IN  IF base = "All Bases"
        THEN [route |-> data.route, block_str |-> data.block_str,
              total |-> data.total,
              base_pct |-> round_pct(top_b.count, data.total),
              crew_dist |-> <<top_b.base>>,
              base_cnt |-> top_b.count]
        ELSE [route |-> data.route, block_str |-> data.block_str,
              total |-> data.total,
              base_pct |-> IF data.total > 0 THEN round_pct(base_cnt, data.total) ELSE 0,
              crew_dist |-> first_n([p \in 1..Len(order) |-> data.by_base[order[p]]], 5),
              base_cnt |-> base_cnt]

get_base_top20_legs(file_content, base, bid_year) ==
    LET summary(results) ==
            LET total_top20 == Sum([p \in 1..Len(results) |-> results[p].total])
                base_top20 == Sum([p \in 1..Len(results) |-> results[p].base_cnt])
            IN  [legs |-> [p \in 1..Len(results) |->
                              [route |-> results[p].route,
                               block_str |-> results[p].block_str,
                               total |-> results[p].total,
                               base_pct |-> results[p].base_pct,
                               crew_dist |-> results[p].crew_dist]],
                 total_top20 |-> total_top20,
                 base_top20 |-> base_top20,
                 non_base_top20 |-> total_top20 - base_top20,
                 base_pct_total |-> IF total_top20 > 0
                                    THEN round_pct(base_top20, total_top20) ELSE 0]
        legs_result(top20) ==
            At([p \in 1..Len(top20) |-> leg_result(top20[p], base)], summary)
        of_data(data) == At(top20_of(data), legs_result)
        of_legs(legs) == At(route_data(legs), of_data)
    IN  At(counted_legs(parse_trips(file_content), base, bid_year), of_legs)

(***************************************************************************)
(* The inputs of the calls.                                                *)
(***************************************************************************)
Years == {2025, 2026, 2027, 2028}

HeaderMonths == {"JAN", "FEB", "DEC"}

HeaderDays == {1, 5, 30}

DowLists == {<<>>, <<"MO">>, <<"MO", "WE", "FR">>, <<"TH", "SU">>}

HeaderForms == {"ONLY", "RANGE_DOT", "RANGE_NODOT", "RANGE_DAY", "NONE"}

\* a header in canonical form: the fields its form does not print are fixed
Headers ==
    {EffectiveLine("NONE", w, "JAN", 1, "JAN", 1) : w \in DowLists}
    \cup {EffectiveLine("ONLY", w, m, d, m, d) :
             w \in DowLists, m \in HeaderMonths, d \in HeaderDays}
    \cup {EffectiveLine("RANGE_DAY", w, m, d, m, e) :
             w \in DowLists, m \in HeaderMonths, d \in HeaderDays, e \in HeaderDays}
    \cup {EffectiveLine(f, w, m, d, n, e) :
             f \in {"RANGE_DOT", "RANGE_NODOT"}, w \in DowLists,
             m \in HeaderMonths, d \in HeaderDays,
             n \in HeaderMonths, e \in HeaderDays}

ExceptEntries ==
    {[m |-> "JAN", d |-> 5], [m |-> "JAN", d |-> 30],
     [m |-> "DEC", d |-> 1], [m |-> "FEB", d |-> 30]}

\* the EXCEPT lines of a trip: none, or one line
ExceptLines == {<<>>} \cup {<<ExceptLine(s)>> : s \in SeqsUpTo(ExceptEntries, MaxExcept)}

\* the hours and minutes of a 4-digit time token; 24 and 25 are no hours of
\* a 24-hour clock
TokenHours == 0..25

TokenMinutes == 0..59

\* the flights printed on the leg lines: departure, arrival, next-day marker
\* on the arrival, block time in hundredths
Flights ==
    {<<"ATL",  8,  0, "LAX", 10, 15, FALSE, 215>>,
     <<"ATL", 15,  0, "LAX",  3,  0, TRUE,  1200>>,
     <<"LAX", 22,  0, "JFK",  5,  0, FALSE, 530>>,
     <<"SEA", 20, 30, "XYZ",  7, 30, TRUE,  1100>>,
     <<"XYZ", 22, 30, "ATL",  1, 45, TRUE,  315>>,
     <<"JFK", 20, 15, "ATL", 21, 40, FALSE, 125>>,
     <<"LAX", 19,  0, "ATL",  7,  0, FALSE, 1200>>}

\* the tokens of a flight: flight number, airports, times and block time
FlightTokens(f) ==
    <<Num(123), Apt(f[1]), Time(f[2], f[3], FALSE),
      Apt(f[4]), Time(f[5], f[6], f[7]), Blk(f[8])>>

\* the lines of a trip body: a leg line with or without a day letter, a
\* line of two legs, a deadhead, a line too short to hold a leg, and a line
\* shorter than 10 characters
BodyLines ==
    {LegLine(d, 60, FlightTokens(f)) : d \in {"", "A", "B", "E"}, f \in Flights}
    \cup {LegLine("A", 90,
              FlightTokens(<<"ATL", 22, 0, "LAX", 5, 0, FALSE, 500>>)
              \o FlightTokens(<<"LAX", 8, 0, "ATL", 10, 15, FALSE, 215>>)),
          LegLine("B", 60,
              <<Word("DH")>> \o FlightTokens(<<"LAX", 8, 0, "ATL", 10, 15, FALSE, 215>>)),
          LegLine("C", 25, <<Num(123), Apt("ATL"), Time(21, 0, FALSE)>>),
          LegLine("D", 8, <<Num(123)>>)}

TripBodies == SeqsUpTo(BodyLines, MaxLegLines)

\* the lines between the EFFECTIVE line and the separator in a file
FileLines ==
    {LegLine("A", 60, FlightTokens(<<"ATL", 8, 0, "LAX", 10, 15, FALSE, 215>>)),
     LegLine("A", 60, FlightTokens(<<"JFK", 9, 0, "XYZ", 21, 0, FALSE, 1200>>)),
     LegLine("B", 60, FlightTokens(<<"LAX", 22, 0, "ATL", 5, 0, FALSE, 530>>)),
     CreditLine(1030, TRUE),
     CreditLine(1030, FALSE),
     PayLine([form |-> "colon", h |-> 12, m |-> 30], 50, -1, -1, -1),
     NumberLine("L", "832"),
     ExceptLine(<<[m |-> "JAN", d |-> 8]>>)}

FileBodies == SeqsUpTo(FileLines, MaxBodyLines)

FileHeaders ==
    {EffectiveLine("RANGE_DOT", <<"TH", "SU">>, "JAN", 5, "JAN", 30),
     EffectiveLine("ONLY", <<"FR">>, "JAN", 30, "JAN", 30),
     EffectiveLine("RANGE_DOT", <<"MO">>, "FEB", 1, "FEB", 5)}

BidMonths == {"February", "March"}

BidYears == {2025, 2026}

BaseFilters == {"All Bases", "ATL"}

\* the lines of a file given to parse_trips: two different EFFECTIVE lines,
\* a leg line, any other text, and a separator
ParseLines ==
    {EffectiveLine("ONLY", <<"FR">>, "JAN", 30, "JAN", 30),
     EffectiveLine("RANGE_DOT", <<"MO">>, "FEB", 1, "FEB", 5),
     LegLine("A", 60, FlightTokens(<<"ATL", 8, 0, "LAX", 10, 15, FALSE, 215>>)),
     TextLine,
     SepLine}

ParseFiles == SeqsUpTo(ParseLines, MaxFileLines)

\* the trips of a file given to analyze_file, each from its EFFECTIVE line
\* to its separator:
\*   a 1-day trip with credit, 7 or 8 occurrences
\*   a 3-day trip (B and a final red-eye leg) whose credit lacks TL
\*   a 3-day trip out of JFK with a leg 1500 -> 0300*
\*   a 3-day trip of a range that ends before it starts (-3 occurrences)
\*   a trip of length 6 (E and a final red-eye leg)
\*   a 3-day trip whose only line is too short to hold a leg
\*   a 4-day trip with two legs on the last day
AnalyzeTrips ==
    LET range == EffectiveLine("RANGE_DOT", <<"TH", "SU">>, "JAN", 5, "JAN", 30)
        only == EffectiveLine("ONLY", <<"FR">>, "JAN", 30, "JAN", 30)
        reversed == EffectiveLine("RANGE_DOT", <<>>, "JAN", 5, "JAN", 1)
        leg(d, f) == LegLine(d, 60, FlightTokens(f))
        out == <<"ATL", 8, 0, "LAX", 10, 15, FALSE, 215>>
        back == <<"LAX", 8, 0, "ATL", 10, 15, FALSE, 215>>
        night == <<"LAX", 22, 0, "ATL", 5, 0, FALSE, 530>>
        marked == <<"JFK", 15, 0, "LAX", 3, 0, TRUE, 1200>>
    IN  {<<range, leg("A", out), CreditLine(1030, TRUE), SepLine>>,
         <<only, leg("A", out), leg("B", night), CreditLine(1030, FALSE), SepLine>>,
         <<range, leg("A", marked), leg("C", back), CreditLine(1545, TRUE), SepLine>>,
         <<reversed, leg("A", out), leg("C", back), CreditLine(1545, TRUE), SepLine>>,
         <<range, leg("E", <<"ATL", 22, 0, "LAX", 5, 0, FALSE, 500>>), SepLine>>,
         <<only, LegLine("C", 25, <<Num(123), Apt("ATL"), Time(21, 0, FALSE)>>),
           CreditLine(1545, TRUE), SepLine>>,
         <<range, leg("A", out), leg("D", night), leg("", back),
           CreditLine(2575, TRUE), SepLine>>}

AnalyzeFiles == {Concat(g) : g \in SeqsUpTo(AnalyzeTrips, MaxTrips)}

\* front_commute_minutes: a report at 07:00 is 420
FrontMinutes == {420, 421}

\* back_commute_minutes: a release at 05:45 is 345, at 11:00 is 660
BackMinutes == {345, 660}

\* the arguments of the calls of a session
SessionCalls ==
    {[file_content |-> Concat(<<t>>), base_filter |-> "All Bases",
      front_commute_minutes |-> 420, back_commute_minutes |-> 660,
      include_short_trips_commute |-> s, bid_year |-> y] :
        t \in AnalyzeTrips, s \in BOOLEAN, y \in {2026}}

\* the trips of a file given to generate_staffing_heatmap:
\*   #832, 3 duty days, JAN30-JAN. 31: the last duty days fall in February
\*   #832, 2 duty days, JAN30-JAN. 31 EXCEPT JAN 31
\*   #4527, 1 duty day, JAN31 ONLY
\*   #4527, 2 duty days, the Saturdays of JAN29-FEB. 01
\*   #L832, 1 duty day
\*   a trip without a number line
\*   #832 out of JFK, FEB01-FEB. 02, whose day B starts with DH
\*   #832, two legs on day A and one on day B
HeatTrips ==
    LET range == EffectiveLine("RANGE_DOT", <<>>, "JAN", 30, "JAN", 31)
        only == EffectiveLine("ONLY", <<>>, "JAN", 31, "JAN", 31)
        saturdays == EffectiveLine("RANGE_DOT", <<"SA">>, "JAN", 29, "FEB", 1)
        february == EffectiveLine("RANGE_DOT", <<>>, "FEB", 1, "FEB", 2)
        leg(d, f) == LegLine(d, 60, FlightTokens(f))
        out == <<"ATL", 8, 0, "LAX", 10, 15, FALSE, 215>>
        back == <<"LAX", 8, 0, "ATL", 10, 15, FALSE, 215>>
        east == <<"JFK", 8, 0, "LAX", 10, 15, FALSE, 215>>
        dh(d, f) == LegLine(d, 60, <<Word("DH")>> \o FlightTokens(f))
    IN  {<<range, NumberLine("", "832"), leg("A", out), leg("B", back),
           leg("C", out), SepLine>>,
         <<range, NumberLine("", "832"), ExceptLine(<<[m |-> "JAN", d |-> 31]>>),
           leg("A", out), leg("B", back), SepLine>>,
         <<only, NumberLine("", "4527"), leg("A", out), SepLine>>,
         <<saturdays, NumberLine("", "4527"), leg("A", out), leg("B", back),
           SepLine>>,
         <<range, NumberLine("L", "832"), leg("A", out), SepLine>>,
         <<range, leg("A", out), SepLine>>,
         <<february, NumberLine("", "832"), leg("A", east), dh("B", back),
           SepLine>>,
         <<range, NumberLine("", "832"), leg("A", out), leg("A", back),
           leg("B", out), SepLine>>}

HeatFiles == {Concat(g) : g \in SeqsUpTo(HeatTrips, MaxHeatTrips)}

\* bid_month of generate_staffing_heatmap
HeatMonths == {"January", "February"}

\* the lines of a trip given to get_total_credit: 'TOTAL CREDIT 10.30TL',
\* 'TOTAL CREDIT 10.30', 'TOTAL CREDIT 5.15TL', 'TOTAL CREDIT N/ATL' and
\* any other text
CreditLines ==
    {CreditLine(1030, TRUE), CreditLine(1030, FALSE), CreditLine(515, TRUE),
     CreditLine(-1, TRUE), TextLine}

CreditTrips == SeqsUpTo(CreditLines, MaxCreditLines)

\* the airports of the routes of the trip of many legs
RouteAirports == <<"ATL", "LAX", "JFK", "SEA", "BOS", "DTW">>

\* the trips of a file given to get_base_top20_legs:
\*   ATL-LAX in 2.15, on the Thursdays and Sundays of JAN05-JAN. 30
\*   ATL-JFK in 12.00, on JAN30 ONLY if a Friday
\*   JFK-LAX in 5.30 and LAX-ATL in 2.15, Thursdays and Sundays
\*   LAX-ATL in 12.00, on JAN30 ONLY
\*   ManyLegLines lines of 3 legs, each leg of another route, in 1.01,
\*   1.02, ...
TopTrips ==
    LET range == EffectiveLine("RANGE_DOT", <<"TH", "SU">>, "JAN", 5, "JAN", 30)
        friday == EffectiveLine("ONLY", <<"FR">>, "JAN", 30, "JAN", 30)
        only == EffectiveLine("ONLY", <<>>, "JAN", 30, "JAN", 30)
        leg(d, f) == LegLine(d, 60, FlightTokens(f))
        dep(p) == RouteAirports[((p - 1) \div 5) + 1]
        others(p) == LET other(a) == a # dep(p) IN SelectSeq(RouteAirports, other)
        route_leg(p) ==
            FlightTokens(<<dep(p), 8, 0, others(p)[((p - 1) % 5) + 1], 10, 15,
                           FALSE, 100 + p>>)
        route_line(n) ==
            LegLine("A", 150, route_leg(3 * n - 2) \o route_leg(3 * n - 1)
                                  \o route_leg(3 * n))
    IN  {<<range, leg("A", <<"ATL", 8, 0, "LAX", 10, 15, FALSE, 215>>), SepLine>>,
         <<friday, leg("A", <<"ATL", 8, 0, "JFK", 20, 0, FALSE, 1200>>), SepLine>>,
         <<range, leg("A", <<"JFK", 8, 0, "LAX", 13, 30, FALSE, 530>>),
           leg("B", <<"LAX", 8, 0, "ATL", 10, 15, FALSE, 215>>), SepLine>>,
         <<only, leg("A", <<"LAX", 8, 0, "ATL", 20, 0, FALSE, 1200>>), SepLine>>,
         <<only>> \o [n \in 1..ManyLegLines |-> route_line(n)] \o <<SepLine>>}

TopFiles == {Concat(g) : g \in SeqsUpTo(TopTrips, MaxTopTrips)}

\* base of get_base_top20_legs
TopBases == {"All Bases", "ATL", "NYC"}

\* the lines after the EFFECTIVE line of a trip given to is_split_trip and
\* split_trip_into_sections: a leg of day A, of day B, a leg on a line
\* without a letter, the two TOTAL lines and any other text
SplitLines ==
    {LegLine("A", 60, FlightTokens(<<"ATL", 8, 0, "LAX", 10, 15, FALSE, 215>>)),
     LegLine("B", 60, FlightTokens(<<"LAX", 22, 0, "ATL", 5, 0, FALSE, 530>>)),
     LegLine("", 60, FlightTokens(<<"LAX", 12, 0, "SEA", 14, 0, FALSE, 200>>)),
     CreditLine(1030, TRUE),
     PayLine([form |-> "colon", h |-> 12, m |-> 30], 50, -1, -1, -1),
     TextLine}

\* the trips given to them: an EFFECTIVE line of January or of February,
\* any other text, and the lines after it
SplitTrips ==
    {<<h, TextLine>> \o b :
        h \in {EffectiveLine("RANGE_DOT", <<"TH", "SU">>, "JAN", 5, "JAN", 30),
               EffectiveLine("RANGE_DOT", <<"MO">>, "FEB", 1, "FEB", 5)},
        b \in SeqsUpTo(SplitLines, MaxSplitLines)}

(***************************************************************************)
(* The calls.                                                              *)
(***************************************************************************)
Init ==
    /\ op = "none"
    /\ args = <<>>
    /\ ret = <<>>

Call_get_effective_dates ==
    /\ op = "none"
    /\ \E h \in {<<>>} \cup {<<x>> : x \in Headers}, e \in ExceptLines, y \in Years :
        /\ op' = "get_effective_dates"
        /\ args' = [trip_lines |-> h \o e, bid_year |-> y]
        /\ ret' = get_effective_dates(h \o e, y)

NextDates == Call_get_effective_dates

SpecDates == Init /\ [][NextDates]_vars

Call_calculate_report_time ==
    /\ op = "none"
    /\ \E hh \in TokenHours, mm \in TokenMinutes :
        /\ op' = "calculate_report_time"
        /\ args' = [first_dep_time |-> Time(hh, mm, FALSE)]
        /\ ret' = calculate_report_time(Time(hh, mm, FALSE))

Call_calculate_release_time ==
    /\ op = "none"
    /\ \E hh \in TokenHours, mm \in TokenMinutes :
        /\ op' = "calculate_release_time"
        /\ args' = [last_arr_time |-> Time(hh, mm, FALSE)]
        /\ ret' = calculate_release_time(Time(hh, mm, FALSE))

NextTimes == Call_calculate_report_time \/ Call_calculate_release_time

SpecTimes == Init /\ [][NextTimes]_vars

Call_determine_trip_length_with_details ==
    /\ op = "none"
    /\ \E trip_lines \in TripBodies :
        /\ op' = "determine_trip_length_with_details"
        /\ args' = [trip_lines |-> trip_lines]
        /\ ret' = determine_trip_length_with_details(trip_lines)

Call_extract_detailed_trip_info ==
    /\ op = "none"
    /\ \E trip_lines \in TripBodies :
        /\ op' = "extract_detailed_trip_info"
        /\ args' = [trip_lines |-> trip_lines]
        /\ ret' = extract_detailed_trip_info(trip_lines)

NextTrip ==
    Call_determine_trip_length_with_details \/ Call_extract_detailed_trip_info

SpecTrip == Init /\ [][NextTrip]_vars

Call_get_detailed_trips ==
    /\ op = "none"
    /\ \E h \in FileHeaders, b \in FileBodies, base_filter \in BaseFilters,
          bid_month \in BidMonths, bid_year \in BidYears :
        /\ op' = "get_detailed_trips"
        /\ args' = [file_content |-> <<h>> \o b \o <<SepLine>>,
                    base_filter |-> base_filter, bid_month |-> bid_month,
                    bid_year |-> bid_year]
        /\ ret' = get_detailed_trips(<<h>> \o b \o <<SepLine>>, base_filter,
                                     bid_month, bid_year)

NextDetail == Call_get_detailed_trips

SpecDetail == Init /\ [][NextDetail]_vars

Call_parse_trips ==
    /\ op = "none"
    /\ \E file_content \in ParseFiles :
        /\ op' = "parse_trips"
        /\ args' = [file_content |-> file_content]
        /\ ret' = parse_trips(file_content)

NextParse == Call_parse_trips

SpecParse == Init /\ [][NextParse]_vars

Call_analyze_file ==
    /\ op = "none"
    /\ \E file_content \in AnalyzeFiles, base_filter \in BaseFilters,
          front_commute_minutes \in FrontMinutes,
          back_commute_minutes \in BackMinutes,
          include_short_trips_commute \in BOOLEAN, bid_year \in BidYears :
        /\ op' = "analyze_file"
        /\ args' = [file_content |-> file_content, base_filter |-> base_filter,
                    front_commute_minutes |-> front_commute_minutes,
                    back_commute_minutes |-> back_commute_minutes,
                    include_short_trips_commute |-> include_short_trips_commute,
                    bid_year |-> bid_year]
        /\ ret' = analyze_file(file_content, base_filter, front_commute_minutes,
                               back_commute_minutes, include_short_trips_commute,
                               bid_year)

NextAnalyze == Call_analyze_file

SpecAnalyze == Init /\ [][NextAnalyze]_vars

\* a call that starts its counters from the totals of the call before it
call_in_session_keeping_totals(earlier, a) ==
    LET result == analyze_file(a.file_content, a.base_filter,
                      a.front_commute_minutes, a.back_commute_minutes,
                      a.include_short_trips_commute, a.bid_year)
    IN  IF earlier = <<>> THEN result
        ELSE [result EXCEPT !.total_trips = @ + earlier[Len(earlier)].total_trips]

\* the result of a call made after the calls whose results are earlier:
\* every counter is a local of the call and starts from 0, so nothing of the
\* earlier calls is read
call_in_session(earlier, a) ==
    analyze_file(a.file_content, a.base_filter, a.front_commute_minutes,
                 a.back_commute_minutes, a.include_short_trips_commute,
                 a.bid_year)

\* one more call of analyze_file in a session of calls: args and ret hold
\* the arguments and the results of the calls made so far, in order
Session_analyze_file ==
    /\ op \in {"none", "session"}
    /\ Len(args) < MaxCalls
    /\ \E a \in SessionCalls :
        /\ op' = "session"
        /\ args' = Append(args, a)
        /\ ret' = Append(ret, call_in_session(ret, a))

NextSession == Session_analyze_file

SpecSession == Init /\ [][NextSession]_vars

Call_generate_staffing_heatmap ==
    /\ op = "none"
    /\ \E file_content \in HeatFiles, bid_month \in HeatMonths,
          bid_year \in BidYears, base_filter \in BaseFilters :
        /\ op' = "generate_staffing_heatmap"
        /\ args' = [file_content |-> file_content, bid_month |-> bid_month,
                    bid_year |-> bid_year, base_filter |-> base_filter]
        /\ ret' = generate_staffing_heatmap(file_content, bid_month, bid_year,
                                            base_filter)

NextHeat == Call_generate_staffing_heatmap

SpecHeat == Init /\ [][NextHeat]_vars

Call_get_total_credit ==
    /\ op = "none"
    /\ \E trip_lines \in CreditTrips :
        /\ op' = "get_total_credit"
        /\ args' = [trip_lines |-> trip_lines]
        /\ ret' = get_total_credit(trip_lines)

NextCredit == Call_get_total_credit

SpecCredit == Init /\ [][NextCredit]_vars

Call_get_base_top20_legs ==
    /\ op = "none"
    /\ \E file_content \in TopFiles, base \in TopBases, bid_year \in BidYears :
        /\ op' = "get_base_top20_legs"
        /\ args' = [file_content |-> file_content, base |-> base,
                    bid_year |-> bid_year]
        /\ ret' = get_base_top20_legs(file_content, base, bid_year)

NextTop == Call_get_base_top20_legs

SpecTop == Init /\ [][NextTop]_vars

Call_is_split_trip ==
    /\ op = "none"
    /\ \E trip_lines \in SplitTrips, bid_month \in BidMonths :
        /\ op' = "is_split_trip"
        /\ args' = [trip_lines |-> trip_lines, bid_month |-> bid_month]
        /\ ret' = is_split_trip(trip_lines, bid_month)

Call_split_trip_into_sections ==
    /\ op = "none"
    /\ \E trip_lines \in SplitTrips :
        /\ op' = "split_trip_into_sections"
        /\ args' = [trip_lines |-> trip_lines]
        /\ ret' = split_trip_into_sections(trip_lines)

NextSplit == Call_is_split_trip \/ Call_split_trip_into_sections

SpecSplit == Init /\ [][NextSplit]_vars

Next ==
    \/ Call_get_effective_dates
    \/ Call_calculate_report_time
    \/ Call_calculate_release_time
    \/ Call_determine_trip_length_with_details
    \/ Call_extract_detailed_trip_info
    \/ Call_get_detailed_trips
    \/ Call_parse_trips
    \/ Call_analyze_file
    \/ Session_analyze_file
    \/ Call_generate_staffing_heatmap
    \/ Call_get_total_credit
    \/ Call_get_base_top20_legs
    \/ Call_is_split_trip
    \/ Call_split_trip_into_sections

Spec == Init /\ [][Next]_vars

(***************************************************************************)
(* Properties of get_effective_dates.                                      *)
(***************************************************************************)
\* the EFFECTIVE line of the call's trip_lines
TheHeader == LastLineOfKind(args.trip_lines, "EFFECTIVE", NoLine)

\* the EXCEPT entries of the call's trip_lines
TheExceptEntries ==
    LET l == LastLineOfKind(args.trip_lines, "EXCEPT", NoLine)
    IN  IF l = NoLine THEN <<>> ELSE l.dates

CalledEffective == op = "get_effective_dates"

\* the call resolved a range [start, end]
ResolvedRange ==
    /\ CalledEffective
    /\ TheHeader # NoLine
    /\ TheHeader.form \in {"RANGE_DOT", "RANGE_DAY"}
    /\ ret.start_date # None

\* the weekday numbers of the header's day-of-week tokens
HeaderWeekdays == {dow_map[TheHeader.dows[i]] : i \in 1..Len(TheHeader.dows)}

\* the calendar dates in [start, end] whose weekday is in the set, as ordinals
CalendarOccurrences ==
    {n \in toordinal(ret.start_date)..toordinal(ret.end_date) :
        weekday_of_ordinal(n) \in HeaderWeekdays}

\* the 'MMM DD' entry e names one of the dates of the set D of ordinals
NamesDateIn(e, D) ==
    \E y \in {ret.start_date.year, ret.end_date.year} :
        /\ datetime(y, month_map[e.m], e.d) # ValueError
        /\ toordinal(datetime(y, month_map[e.m], e.d)) \in D

\* C1: for every bid year and every header with a non-empty weekday set and
\* a valid range, the occurrence count is the number of dates in
\* [start, end] whose weekday is in the set, minus the number of EXCEPT
\* entries that name such a date.
C1_CountIsCalendarCountMinusExceptions ==
    (ResolvedRange /\ TheHeader.dows # <<>>) =>
        ret.occurrences =
            Cardinality(CalendarOccurrences)
            - Cardinality({i \in 1..Len(TheExceptEntries) :
                              NamesDateIn(TheExceptEntries[i], CalendarOccurrences)})

\* C2: the occurrence count get_effective_dates returns is never negative.
C2_OccurrencesNeverNegative ==
    CalledEffective => ret.occurrences >= 0

\* the header is 'MMMdd ONLY' with a date that exists in the bid year
ValidOnly ==
    /\ CalledEffective
    /\ TheHeader # NoLine
    /\ TheHeader.form = "ONLY"
    /\ datetime(args.bid_year, month_map[TheHeader.m1], TheHeader.d1) # ValueError

\* C6: for a 'MMMdd ONLY' header with a valid date, start = end = that date
\* in the bid year, and the count is 1 if the weekday set is empty or holds
\* the date's weekday, and 0 otherwise.
C6_OnlyForm ==
    ValidOnly =>
        LET date == datetime(args.bid_year, month_map[TheHeader.m1], TheHeader.d1)
        IN  /\ ret.start_date = date
            /\ ret.end_date = date
            /\ ret.occurrences =
                   IF TheHeader.dows = <<>> \/ weekday(date) \in HeaderWeekdays
                   THEN 1 ELSE 0

\* C6 witness: an ONLY date whose weekday is not in the header's set
C6_Witness ==
    /\ ValidOnly
    /\ TheHeader.dows # <<>>
    /\ weekday(ret.start_date) \notin HeaderWeekdays
    /\ ret.occurrences = 0

\* C7: when the end month number of a range is smaller than the start month
\* number, the start date is in the bid year and the end date in the year
\* after it; otherwise both dates are in the bid year.
C7_CrossYearRange ==
    ResolvedRange =>
        LET rolls == /\ TheHeader.form = "RANGE_DOT"
                     /\ month_map[TheHeader.m2] < month_map[TheHeader.m1]
        IN  /\ ret.start_date =
                   [year |-> args.bid_year, month |-> month_map[TheHeader.m1],
                    day |-> TheHeader.d1]
            /\ ret.end_date =
                   [year |-> IF rolls THEN args.bid_year + 1 ELSE args.bid_year,
                    month |-> IF TheHeader.form = "RANGE_DOT"
                              THEN month_map[TheHeader.m2]
                              ELSE month_map[TheHeader.m1],
                    day |-> TheHeader.d2]

\* C7 witness: DEC30-JAN. 05 ends in the year after the bid year
C7_Witness ==
    /\ ResolvedRange
    /\ TheHeader.m1 = "DEC" /\ TheHeader.d1 = 30
    /\ TheHeader.m2 = "JAN" /\ TheHeader.d2 = 5
    /\ ret.end_date.year = args.bid_year + 1

\* the header's date text names a date that does not exist
ImpossibleDate ==
    /\ TheHeader # NoLine
    /\ \/ /\ TheHeader.form \in {"ONLY", "RANGE_DOT", "RANGE_DAY"}
          /\ TheHeader.d1 > DaysInMonth(args.bid_year, month_map[TheHeader.m1])
       \/ /\ TheHeader.form = "RANGE_DAY"
          /\ TheHeader.d2 > DaysInMonth(args.bid_year, month_map[TheHeader.m1])
       \/ /\ TheHeader.form = "RANGE_DOT"
          /\ TheHeader.d2 >
                 DaysInMonth(IF month_map[TheHeader.m2] < month_map[TheHeader.m1]
                             THEN args.bid_year + 1 ELSE args.bid_year,
                             month_map[TheHeader.m2])

\* C8: with no EFFECTIVE line, with a header of neither the ONLY nor a range
\* form, or with an impossible date in either form, get_effective_dates
\* returns (and does not raise) start = None, end = None and the count 1.
C8_UnparseableGivesNoDates ==
    (/\ CalledEffective
     /\ \/ TheHeader = NoLine
        \/ TheHeader.form \in {"NONE", "RANGE_NODOT"}
        \/ ImpossibleDate) =>
        /\ ret # ValueError
        /\ ret.start_date = None
        /\ ret.end_date = None
        /\ ret.occurrences = 1

\* C8 witness: a range that starts on a valid date and ends on FEB30
C8_Witness ==
    /\ CalledEffective
    /\ ImpossibleDate
    /\ TheHeader.form = "RANGE_DOT"
    /\ TheHeader.m1 = "JAN" /\ TheHeader.d1 = 5
    /\ TheHeader.m2 = "FEB" /\ TheHeader.d2 = 30
    /\ ret.start_date = None
    /\ ret.occurrences = 1

(***************************************************************************)
(* Properties of calculate_report_time and calculate_release_time.         *)
(***************************************************************************)
\* HHMM is a time of the 24-hour clock
ValidTime(t) == t.hh \in 0..23 /\ t.mm \in 0..59

\* C10: for every valid 24-hour time HHMM, calculate_report_time returns
\* (HH*60 + MM - 60) mod 1440 and calculate_release_time returns
\* (HH*60 + MM + 45) mod 1440, and both results lie in 0..1439.
C10_ReportAndReleaseWrapAtMidnight ==
    /\ (op = "calculate_report_time" /\ ValidTime(args.first_dep_time)) =>
          /\ ret = (args.first_dep_time.hh * 60 + args.first_dep_time.mm
                    - 60 + 1440) % 1440
          /\ ret \in 0..1439
    /\ (op = "calculate_release_time" /\ ValidTime(args.last_arr_time)) =>
          /\ ret = (args.last_arr_time.hh * 60 + args.last_arr_time.mm + 45)
                   % 1440
          /\ ret \in 0..1439

\* the departure 0030 is reported at 1410, that is 23:30
C10_Witness ==
    /\ op = "calculate_report_time"
    /\ args.first_dep_time.hh = 0 /\ args.first_dep_time.mm = 30
    /\ ret = 1410

(***************************************************************************)
(* Properties of determine_trip_length_with_details and has_redeye_flight. *)
(***************************************************************************)
\* the legs of the trip as the text prints them, the next-day marker kept
RECURSIVE PrintedLegs(_)
PrintedLegs(trip_lines) ==
    IF trip_lines = <<>> THEN <<>>
    ELSE (IF line_len(Head(trip_lines)) > 30
          THEN leg_windows(parts_of(Head(trip_lines)), 1) ELSE <<>>)
         \o PrintedLegs(Tail(trip_lines))

\* the rank of the last duty-day letter seen, 0 when no letter is seen
LastLetterRank(trip_lines) ==
    LET I == {i \in 1..Len(trip_lines) :
                 /\ line_len(trip_lines[i]) >= 10
                 /\ day_col(trip_lines[i]) \in DayLetters}
    IN  IF I = {} THEN 0
        ELSE day_to_length[day_col(trip_lines[CHOOSE i \in I : \A j \in I : j <= i])]

\* the final extracted leg departs at hour 20 or later and arrives at hour
\* 2 or later
FinalLegExtends(trip_lines) ==
    LET legs == PrintedLegs(trip_lines)
    IN  /\ legs # <<>>
        /\ legs[Len(legs)][2].hh >= 20
        /\ legs[Len(legs)][4].hh >= 2

\* C5: determine_trip_length_with_details returns the rank of the last
\* duty-day letter seen, plus exactly 1 when the final extracted leg has
\* departure hour >= 20 and arrival hour >= 2, and plus 0 otherwise; the
\* extension is never more than 1.
C5_LengthIsRankPlusExtension ==
    op = "determine_trip_length_with_details" =>
        /\ ret.num_days = LastLetterRank(args.trip_lines)
                          + (IF FinalLegExtends(args.trip_lines) THEN 1 ELSE 0)
        /\ ret.num_days - LastLetterRank(args.trip_lines) \in {0, 1}

\* a two-leg trip that ends on day B with a final leg that departs at hour
\* 20 or later and arrives at hour 2 or later has length 3
C5_Witness ==
    /\ op = "determine_trip_length_with_details"
    /\ LastLetterRank(args.trip_lines) = 2
    /\ FinalLegExtends(args.trip_lines)
    /\ Len(PrintedLegs(args.trip_lines)) = 2
    /\ ret.num_days = 3

\* a printed leg is a red-eye
PrintedRedeye(w) ==
    LET dep_minutes == w[2].hh * 60 + w[2].mm
        arr_minutes == w[4].hh * 60 + w[4].mm
        overnight == \/ w[4].star
                     \/ dep_minutes >= 18 * 60 /\ arr_minutes < 12 * 60
    IN  \/ overnight /\ arr_minutes >= 2 * 60 /\ arr_minutes <= 5 * 60 + 59
        \/ dep_minutes >= 20 * 60 /\ arr_minutes >= 2 * 60 /\ arr_minutes <= 8 * 60

\* C4: the has-redeye flag of a trip is true iff some leg of the trip is
\* overnight (next-day marker on its arrival time in the text, or departure
\* >= 18:00 with arrival before 12:00) and arrives within 02:00-05:59, or
\* departs >= 20:00 and arrives within 02:00-08:00; a leg printed as
\* 1500 -> 0300* makes the trip a red-eye trip.
C4_RedeyeFlagFollowsPrintedLegs ==
    op = "extract_detailed_trip_info" =>
        (ret.has_redeye <=>
            \E k \in 1..Len(PrintedLegs(args.trip_lines)) :
                PrintedRedeye(PrintedLegs(args.trip_lines)[k]))

(***************************************************************************)
(* Properties of get_detailed_trips on a split trip.                       *)
(***************************************************************************)
\* the trip of the call's file
TheTrip == parse_trips(args.file_content)[1]

\* the call emitted the two sections of a split trip
EmittedSplitTrip ==
    /\ op = "get_detailed_trips"
    /\ is_split_trip(TheTrip, args.bid_month)
    /\ Len(ret) = 2

\* C3: for every split trip and every bid_year argument, section 1 is
\* emitted with occurrences = 1 and section 2 with occurrences =
\* max(T - 1, 0), where T is the occurrence count of the whole trip under
\* that same bid year.
C3_SplitOccurrencesUnderBidYear ==
    EmittedSplitTrip =>
        /\ ret[1].occurrences = 1
        /\ ret[2].occurrences =
               Max(get_effective_dates(TheTrip, args.bid_year).occurrences - 1, 0)

\* the value printed after TOTAL CREDIT in the trip, NoneNum when none is
PrintedTotalCredit(trip_lines) ==
    LET I == {i \in 1..Len(trip_lines) :
                 trip_lines[i].kind = "CREDIT" /\ trip_lines[i].v # -1}
    IN  IF I = {} THEN NoneNum
        ELSE hours_of_hundredths(trip_lines[CHOOSE i \in I : \A j \in I : i <= j].v)

\* section 2's credit is the larger of its block hours and 5.15 hours per
\* distinct duty-day letter, and its pay and pay components are null
SectionTwoCreditAndPay ==
    LET section2 == split_trip_into_sections(TheTrip).section2
        block_times == get_flight_block_times(section2)
        block_hours == Sum([k \in 1..Len(block_times) |->
                               hours_of_minutes((block_times[k] \div 100) * 60
                                                + (block_times[k] % 100))])
        letters == {section2[i].day : i \in {j \in 1..Len(section2) :
                       section2[j].kind = "LEG" /\ section2[j].day \in DayLetters}}
    IN  /\ ret[2].total_credit =
               Max(block_hours, hours_of_hundredths(515) * Cardinality(letters))
        /\ ret[2].total_pay = NoneNum
        /\ ret[2].sit = NoneNum /\ ret[2].edp = NoneNum
        /\ ret[2].hol = NoneNum /\ ret[2].carve = NoneNum

\* C9: for every split trip emitted by get_detailed_trips, section 1's
\* total_credit equals the TOTAL CREDIT value printed in the original trip,
\* and section 2's total_credit equals max(sum of section 2's block times
\* in hours, 5.15 x number of distinct duty-day letters in section 2), with
\* section 2's pay and all four pay sub-components null.
C9_SplitCreditAndPay ==
    EmittedSplitTrip =>
        /\ ret[1].total_credit = PrintedTotalCredit(TheTrip)
        /\ SectionTwoCreditAndPay

(***************************************************************************)
(* Properties of parse_trips.                                              *)
(***************************************************************************)
\* the least element of a non-empty set of numbers
Least(S) == CHOOSE i \in S : \A j \in S : i <= j

\* the spans of the text from line k on: each begins at the first line
\* that contains EFFECTIVE and ends at the next separator line
RECURSIVE ClaimedSpans(_, _)
ClaimedSpans(lines, k) ==
    LET E == {i \in k..Len(lines) : lines[i].kind = "EFFECTIVE"}
    IN  IF E = {} THEN <<>>
        ELSE LET S == {j \in (Least(E) + 1)..Len(lines) : lines[j].kind = "SEP"}
             IN  IF S = {} THEN <<>>
                 ELSE <<SubSeq(lines, Least(E), Least(S))>>
                      \o ClaimedSpans(lines, Least(S) + 1)

\* C11: parse_trips returns, in input order, exactly one line group per
\* span that begins at a line containing EFFECTIVE and ends (inclusive) at
\* the next line whose trimmed content starts with '---'; lines outside
\* such spans appear in no group, and a text with no EFFECTIVE line yields
\* an empty list.
C11_GroupsAreTheSpans ==
    op = "parse_trips" => ret = ClaimedSpans(args.file_content, 1)

(***************************************************************************)
(* Properties of analyze_file.                                             *)
(***************************************************************************)
\* the trips of the call's file that analyze_file counts, each with what
\* extract_detailed_trip_info and get_effective_dates say of it
CountedTrips ==
    LET trips == parse_trips(args.file_content)
        described(k) ==
            [position |-> k,
             info |-> extract_detailed_trip_info(trips[k]),
             occurrences |->
                 get_effective_dates(trips[k], args.bid_year).occurrences,
             first_airport |-> get_first_departure_airport(trips[k])]
        counted(d) ==
            /\ d.first_airport # NoneStr
            /\ args.base_filter = "All Bases" \/ d.info.base = args.base_filter
            /\ d.info.length \in 1..5
    IN  {d \in {described(k) : k \in 1..Len(trips)} : counted(d)}

\* the sum of the occurrences of a set of counted trips
RECURSIVE Occurrences(_)
Occurrences(D) ==
    IF D = {} THEN 0
    ELSE LET d == CHOOSE x \in D : TRUE
         IN  d.occurrences + Occurrences(D \ {d})

\* the counted trip is eligible for commutability
Eligible(d) ==
    /\ d.info.total_legs >= 1
    /\ d.info.length >= 3 \/ args.include_short_trips_commute

FrontOk(d) == Eligible(d) /\ d.info.report_time_minutes >= args.front_commute_minutes

BackOk(d) == Eligible(d) /\ d.info.release_time_minutes <= args.back_commute_minutes

BothOk(d) == FrontOk(d) /\ BackOk(d)

\* the percentage of a length and the overall rate that a commutability
\* count gives
ClaimedPct(Ok(_), l) ==
    IF ret.trip_counts[l] > 0
    THEN [num |-> 100 * Occurrences({d \in CountedTrips : d.info.length = l /\ Ok(d)}),
          den |-> ret.trip_counts[l]]
    ELSE Zero

ClaimedRate(Ok(_)) ==
    LET denominator ==
            IF args.include_short_trips_commute THEN ret.total_trips
            ELSE Occurrences({d \in CountedTrips : d.info.length \in 3..5})
    IN  IF denominator > 0
        THEN [num |-> 100 * Occurrences({d \in CountedTrips : Ok(d)}),
              den |-> denominator]
        ELSE Zero

\* C12: a trip with at least one leg that is eligible for commutability
\* (length >= 3, or any length 1-5 when include_short_trips_commute is
\* true) adds its occurrences to the front count iff report minutes >=
\* front threshold, to the back count iff release minutes <= back
\* threshold, and to the both count iff both hold; when the flag is false,
\* trips of length 1-2 add nothing to any commutability count and the
\* overall denominator is the number of 3-5 day trip occurrences.
C12_CommutabilityCounts ==
    op = "analyze_file" =>
        /\ \A l \in 1..5 :
              /\ ret.front_commute_pct[l] = ClaimedPct(FrontOk, l)
              /\ ret.back_commute_pct[l] = ClaimedPct(BackOk, l)
              /\ ret.both_commute_pct[l] = ClaimedPct(BothOk, l)
        /\ ret.front_commute_rate = ClaimedRate(FrontOk)
        /\ ret.back_commute_rate = ClaimedRate(BackOk)
        /\ ret.both_commute_rate = ClaimedRate(BothOk)
        /\ ~args.include_short_trips_commute =>
              \A l \in 1..2 : /\ ret.front_commute_pct[l].num = 0
                              /\ ret.back_commute_pct[l].num = 0
                              /\ ret.both_commute_pct[l].num = 0

\* with the flag off, a file of a 1-day trip and a 3-day trip whose report
\* meets the front threshold and whose release misses the back threshold
C12_Witness ==
    /\ op = "analyze_file"
    /\ ~args.include_short_trips_commute
    /\ ret.trip_counts[1] > 0
    /\ ret.front_commute_pct[1].num = 0
    /\ ret.front_commute_pct[3].num > 0
    /\ ret.back_commute_pct[3].num = 0
    /\ ret.front_commute_rate.den = ret.trip_counts[3]

(***************************************************************************)
(* The staffing heat map.                                                  *)
(***************************************************************************)
\* the trips of the file that the heat map counts, each with the ordinals of
\* its occurrence dates and the number of its duty days
HeatCounted ==
    LET trips == parse_trips(args.file_content)
        month_num == heat_month_num(args.bid_month)
        e(k) == get_effective_dates(trips[k], args.bid_year)
        counted(k) ==
            /\ heat_trip_number(trips[k]) # NoneStr
            /\ get_first_departure_airport(trips[k]) # NoneStr
            /\ \/ args.base_filter = "All Bases"
               \/ base_of(get_first_departure_airport(trips[k])) = args.base_filter
            /\ e(k).start_date # None
            /\ e(k).end_date # None
        excepted(k) ==
            {toordinal(d) :
                d \in heat_except_dates(LastLineOfKind(trips[k], "EXCEPT", NoLine),
                                        month_num, args.bid_year)}
        wanted(k, n) ==
            \/ e(k).days_of_week = <<>>
            \/ \E i \in 1..Len(e(k).days_of_week) :
                   dow_map[e(k).days_of_week[i]] = weekday_of_ordinal(n)
    IN  [k \in {j \in 1..Len(trips) : counted(j)} |->
            [occurrences |->
                 {n \in toordinal(e(k).start_date)..toordinal(e(k).end_date) :
                     wanted(k, n) /\ n \notin excepted(k)},
             duty_days |-> Len(heat_duty_days(trips[k], 1, <<>>))]]

\* the duty days of the counted trips: <<trip, occurrence date, i>>
HeatDutyDays ==
    UNION {{k} \X HeatCounted[k].occurrences \X (0..(HeatCounted[k].duty_days - 1)) :
              k \in DOMAIN HeatCounted}

\* C13: generate_staffing_heatmap returns one pilot count for each calendar
\* day of the bid month, none negative; the count of a day is the number of
\* duty days occurrence date + i of the counted trips that fall on that day
\* of the bid month and bid year, so that a duty day in another month or year
\* adds to no count
C13_OneCountPerDayOfBidMonth ==
    op = "generate_staffing_heatmap" =>
        LET month_num == heat_month_num(args.bid_month)
            first == toordinal(datetime(args.bid_year, month_num, 1))
            duties == HeatDutyDays
            inside == {t \in duties :
                          /\ fromordinal(t[2] + t[3]).month = month_num
                          /\ fromordinal(t[2] + t[3]).year = args.bid_year}
        IN  /\ Len(ret.pilot_counts) = DaysInMonth(args.bid_year, month_num)
            /\ \A day \in 1..Len(ret.pilot_counts) :
                   /\ ret.pilot_counts[day] >= 0
                   /\ ret.pilot_counts[day] =
                          Cardinality({t \in duties :
                                          t[2] + t[3] = first + day - 1})
            /\ Sum(ret.pilot_counts) = Cardinality(inside)

\* a call in which one duty day of a counted trip falls on a day of the bid
\* month and another in the month after it
C13_Witness ==
    /\ op = "generate_staffing_heatmap"
    /\ \E t \in HeatDutyDays :
           fromordinal(t[2] + t[3]).month = heat_month_num(args.bid_month)
    /\ \E t \in HeatDutyDays :
           fromordinal(t[2] + t[3]).month # heat_month_num(args.bid_month)
    /\ \E day \in 1..Len(ret.pilot_counts) : ret.pilot_counts[day] > 1

(***************************************************************************)
(* get_total_credit                                                        *)
(***************************************************************************)
\* the first TOTAL CREDIT line of the trip whose token after CREDIT is a
\* number once a trailing TL is removed, or NoLine
NumericCreditLine ==
    LET numeric(line) == line.kind = "CREDIT" /\ line.v # -1
    IN  FirstWhere(args.trip_lines, numeric, NoLine)

\* C14: get_total_credit returns the value of the token after CREDIT, with
\* or without a trailing TL, and null when there is no TOTAL CREDIT line or
\* the token is not a number
C14_CreditWithOrWithoutTL ==
    op = "get_total_credit" =>
        ret = IF NumericCreditLine = NoLine THEN NoneNum
              ELSE hours_of_hundredths(NumericCreditLine.v)

(***************************************************************************)
(* Division by zero in analyze_file.                                       *)
(***************************************************************************)
\* a quotient whose value is 0
IsZero(q) == q.num = 0 /\ q.den # 0

\* the denominator of each average and rate of the returned dict, from the
\* counts it returns
RateDenominator ==
    LET total_days == Sum([l \in Lengths |-> l * ret.trip_counts[l]])
        commute_trip_total ==
            IF args.include_short_trips_commute THEN ret.total_trips
            ELSE ret.trip_counts[3] + ret.trip_counts[4] + ret.trip_counts[5]
    IN  [avg_trip_length |-> ret.total_trips,
         avg_credit_per_trip |-> ret.total_trips,
         avg_credit_per_day |-> total_days,
         redeye_rate |-> ret.total_trips,
         front_commute_rate |-> commute_trip_total,
         back_commute_rate |-> commute_trip_total,
         both_commute_rate |-> commute_trip_total]

\* C15: analyze_file never fails with a division by zero, and every average
\* and percentage whose denominator is zero is returned as 0
C15_ZeroDenominatorGivesZero ==
    op = "analyze_file" =>
        /\ ret # ZeroDivisionError
        /\ \A k \in RateKeys : RateDenominator[k] = 0 => IsZero(ret[k])
        /\ \A k \in PerLengthKeys, l \in Lengths :
               ret.trip_counts[l] = 0 => IsZero(ret[k][l])

\* a call that counts trips, none of them of 3 to 5 days, with the short
\* trips left out of the commutability rates: the denominators of the three
\* rates and of the percentages of the lengths 3 to 5 are zero
C15_Witness ==
    /\ op = "analyze_file"
    /\ ret # ZeroDivisionError
    /\ ret.total_trips > 0
    /\ ~args.include_short_trips_commute
    /\ \A l \in 3..5 : ret.trip_counts[l] = 0

(***************************************************************************)
(* get_base_top20_legs                                                     *)
(***************************************************************************)
\* C16: get_base_top20_legs returns at most 20 routes, and no route comes
\* before one of a greater total of weighted occurrences
C16_Top20ByFrequency ==
    op = "get_base_top20_legs" =>
        /\ Len(ret.legs) <= 20
        /\ \A p, q \in 1..Len(ret.legs) :
               p < q => ret.legs[p].total >= ret.legs[q].total

WithPeriod ==
    [k \in 1..Len(args.trip_lines) |->
        IF args.trip_lines[k].kind = "EFFECTIVE"
           /\ args.trip_lines[k].form = "RANGE_NODOT"
        THEN [args.trip_lines[k] EXCEPT !.form = "RANGE_DOT"]
        ELSE args.trip_lines[k]]

\* C18: a header 'MMMdd-MMM dd' without the period resolves to the start
\* date, end date and occurrence count of the same header with the period
C18_PeriodIsOptional ==
    (op = "get_effective_dates" /\ WithPeriod # args.trip_lines) =>
        LET dotted == get_effective_dates(WithPeriod, args.bid_year)
        IN  /\ ret.start_date = dotted.start_date
            /\ ret.end_date = dotted.end_date
            /\ ret.occurrences = dotted.occurrences

(***************************************************************************)
(* EXCEPT dates and the count of a range.                                  *)
(***************************************************************************)
\* the ordinals of the days from the start date to the end date
DaysOfRange == toordinal(ret.start_date)..toordinal(ret.end_date)

\* the EXCEPT entries of the call, by position, that name a day of the range
EntriesInRange ==
    {i \in 1..Len(TheExceptEntries) : NamesDateIn(TheExceptEntries[i], DaysOfRange)}

\* C19: for a resolved range with an empty weekday set the occurrence count
\* is the number of days from the start date to the end date, both included,
\* less 1 for each EXCEPT date inside the range
C19_ExceptAppliesWithoutWeekdays ==
    (/\ ResolvedRange
     /\ TheHeader.dows = <<>>
     /\ toordinal(ret.start_date) <= toordinal(ret.end_date)) =>
        ret.occurrences = Cardinality(DaysOfRange) - Cardinality(EntriesInRange)

\* the date the loop over the EXCEPT entries builds for the entry e
BuiltExceptDate(e) ==
    datetime(except_year(month_map[e.m], args.bid_year), month_map[e.m], e.d)

\* the EXCEPT entries of the call, by position, whose date is an occurrence
\* date: an entry listed k times is counted k times
EntriesOnOccurrences ==
    {i \in 1..Len(TheExceptEntries) :
        /\ BuiltExceptDate(TheExceptEntries[i]) # ValueError
        /\ toordinal(BuiltExceptDate(TheExceptEntries[i])) \in CalendarOccurrences}

\* C20: with a weekday set, every entry of the EXCEPT line whose date is an
\* occurrence date lowers the count by 1, against the same occurrence dates
\* each time, so that a date listed k times lowers it by k
C20_EachEntryCounts ==
    (ResolvedRange /\ TheHeader.dows # <<>>) =>
        ret.occurrences =
            Cardinality(CalendarOccurrences) - Cardinality(EntriesOnOccurrences)

\* a call whose EXCEPT line lists one occurrence date twice: the count is
\* lowered by 2
C20_Witness ==
    /\ ResolvedRange
    /\ TheHeader.dows # <<>>
    /\ Len(TheExceptEntries) = 2
    /\ TheExceptEntries[1] = TheExceptEntries[2]
    /\ EntriesOnOccurrences = {1, 2}
    /\ ret.occurrences = Cardinality(CalendarOccurrences) - 2

(***************************************************************************)
(* Split trips.                                                            *)
(***************************************************************************)
\* the positions of the lines of the call's trip with a letter A-E in the
\* marker column
MarkerLines ==
    {i \in 1..Len(args.trip_lines) :
        /\ args.trip_lines[i].kind = "LEG"
        /\ args.trip_lines[i].day \in {"A", "B", "C", "D", "E"}}

\* the letter of the marker line at position i
Letter(i) == args.trip_lines[i].day

\* the EFFECTIVE line of the trip prints the month before the bid month
PrintsPreviousMonth ==
    \E i \in 1..Len(args.trip_lines) :
        /\ args.trip_lines[i].kind = "EFFECTIVE"
        /\ args.bid_month \in DOMAIN prev_month_map
        /\ prev_month_map[args.bid_month]
               \in {args.trip_lines[i].m1, args.trip_lines[i].m2}

\* a letter comes back after another letter has intervened
LetterComesBack ==
    \E i, j, k \in MarkerLines :
        i < j /\ j < k /\ Letter(i) = Letter(k) /\ Letter(j) # Letter(i)

\* C21: is_split_trip is true exactly when the EFFECTIVE line prints the
\* month before the bid month and a duty-day letter comes back after another
\* letter; the same letter on consecutive marker lines (A, A, B) makes no
\* split trip
C21_SplitIffLetterComesBack ==
    op = "is_split_trip" => (ret <=> (PrintsPreviousMonth /\ LetterComesBack))

\* the marker lines of the call's trip whose letter stands on an earlier
\* marker line
RepeatLines ==
    {i \in MarkerLines : \E j \in MarkerLines : j < i /\ Letter(j) = Letter(i)}

\* the first of a nonempty set of positions
First(S) == CHOOSE i \in S : \A j \in S : i <= j

\* the TOTAL CREDIT and TOTAL PAY lines of the call's trip from position a on
TotalLinesFrom(a) ==
    LET is_total(line) == line.kind \in {"CREDIT", "PAY"}
    IN  SelectSeq(SubSeq(args.trip_lines, a, Len(args.trip_lines)), is_total)

\* the position of the first TOTAL CREDIT line at or after position a, or
\* the position after the last line
FirstCreditFrom(a) ==
    LET C == {i \in a..Len(args.trip_lines) : args.trip_lines[i].kind = "CREDIT"}
    IN  IF C = {} THEN Len(args.trip_lines) + 1 ELSE First(C)

\* the split index and the two sections are built from the first repeated
\* letter, or the trip comes back whole
C22_SectionsAsDescribed ==
    op = "split_trip_into_sections" =>
        IF RepeatLines = {}
        THEN ret = [section1 |-> args.trip_lines, section2 |-> <<>>,
                    split_index |-> -1]
        ELSE LET split == First(RepeatLines)
             IN  /\ ret.split_index = split - 1
                 /\ ret.section1 = SubSeq(args.trip_lines, 1, split - 1)
                                       \o TotalLinesFrom(split)
                 /\ ret.section2 =
                        SubSeq(args.trip_lines, 1, First(MarkerLines) - 1)
                            \o SubSeq(args.trip_lines, split,
                                      FirstCreditFrom(split) - 1)

\* section 2 of a split holds no TOTAL CREDIT line
C22_NoCreditInSectionTwo ==
    op = "split_trip_into_sections" =>
        \A i \in 1..Len(ret.section2) : ret.section2[i].kind # "CREDIT"

\* C22: split_trip_into_sections splits at the first line whose letter stood
\* on an earlier marker line; section 1 is the lines before it and every
\* TOTAL CREDIT / TOTAL PAY line from it on; section 2 is the lines before
\* the first marker line and the lines from the split up to the first TOTAL
\* CREDIT line, so that section 2 holds no TOTAL CREDIT line; without a
\* repeated letter the trip comes back whole, with an empty section 2 and
\* index -1
C22_SplitAtFirstRepeat ==
    C22_SectionsAsDescribed /\ C22_NoCreditInSectionTwo

(***************************************************************************)
(* The legs of the last duty day.                                          *)
(***************************************************************************)
\* the lines of the call's trip the loop of determine_trip_length_with_details
\* takes as marker lines
LengthMarkerLines ==
    {i \in 1..Len(args.trip_lines) :
        /\ line_len(args.trip_lines[i]) >= 10
        /\ day_col(args.trip_lines[i]) \in DayLetters}

\* the letter a leg of line k is attributed to: the letter of the most
\* recent marker line at or before it, "" before the first marker line
AttributedLetter(k) ==
    LET before == {i \in LengthMarkerLines : i <= k}
    IN  IF before = {} THEN ""
        ELSE day_col(args.trip_lines[CHOOSE i \in before :
                                         \A j \in before : j <= i])

\* the extracted legs, each as the pair of its line and its place in the line
ExtractedLegs ==
    UNION {{<<k, n>> : n \in 1..Len(line_legs(args.trip_lines[k]))} :
              k \in 1..Len(args.trip_lines)}

\* the last duty-day letter seen, "" without a marker line
LastLetterSeen == AttributedLetter(Len(args.trip_lines))

\* C23: determine_trip_length_with_details attributes every extracted leg to
\* the letter of the most recent marker line at or before its line, a line
\* without a marker inheriting the letter of the line before it, and
\* last_day_legs is the number of extracted legs attributed to the last
\* letter seen
C23_LastDayLegsByLetter ==
    op = "determine_trip_length_with_details" =>
        /\ Len(ret.flight_legs) = Cardinality(ExtractedLegs)
        /\ ret.last_day_legs =
               Cardinality({p \in ExtractedLegs :
                               /\ LastLetterSeen # ""
                               /\ AttributedLetter(p[1]) = LastLetterSeen})

\* a call in which a leg of a line without a marker counts for the last day
C23_Witness ==
    /\ op = "determine_trip_length_with_details"
    /\ \E p \in ExtractedLegs :
        /\ p[1] \notin LengthMarkerLines
        /\ AttributedLetter(p[1]) = LastLetterSeen
        /\ LastLetterSeen # ""
    /\ ret.last_day_legs >= 2

\* the occurrence dates the loop at lines 296-302 collects for trip k of the
\* call's file
HeatOccurrenceDates(k) ==
    LET trip == parse_trips(args.file_content)[k]
        effective == get_effective_dates(trip, args.bid_year)
        target_dows == [i \in 1..Len(effective.days_of_week) |->
                           dow_map[effective.days_of_week[i]]]
    IN  heat_occurrence_dates(effective.start_date, effective.end_date,
            target_dows,
            heat_except_dates(LastLineOfKind(trip, "EXCEPT", NoLine),
                              heat_month_num(args.bid_month), args.bid_year))

\* the trips of the call's file that reach the loop at lines 296-302
HeatExpanded ==
    {k \in DOMAIN HeatCounted : HeatCounted[k].duty_days > 0}

\* C24: for every trip the heat map counts, generate_staffing_heatmap expands
\* as many occurrence dates as the occurrence count that get_effective_dates
\* returns for the lines of the trip and the bid year
C24_HeatExpandsTheOccurrenceCount ==
    op = "generate_staffing_heatmap" =>
        \A k \in HeatExpanded :
            Len(HeatOccurrenceDates(k)) =
                get_effective_dates(parse_trips(args.file_content)[k],
                                    args.bid_year).occurrences

\* the distinct letters A-E in the marker column of the lines of trip k of
\* the call's file
MarkerLetters(k) ==
    LET trip == parse_trips(args.file_content)[k]
    IN  {day_col(trip[i]) : i \in 1..Len(trip)} \cap DayLetters

\* C25: the number of duty days that generate_staffing_heatmap spreads from
\* each occurrence date of a trip is the number of distinct letters A-E in
\* the marker column of the lines of the trip, a letter whose only marker
\* line is a deadhead leg ('B DH 1234 ...') included
C25_DutyDaysAreTheMarkerLetters ==
    op = "generate_staffing_heatmap" =>
        \A k \in DOMAIN HeatCounted :
            HeatCounted[k].duty_days = Cardinality(MarkerLetters(k))

(***************************************************************************)
(* The counters of analyze_file.                                           *)
(***************************************************************************)
\* the trips the call folds, as the loop reads them
Folded == folded_trips(args.file_content, args.base_filter, args.bid_year)

\* the quotient q is n / d, and 0 when d is not positive
IsQuotient(q, n, d) ==
    IF d > 0 THEN q # ZeroDivisionError /\ q.num * d = n * q.den
    ELSE IsZero(q)

\* C26: in analyze_file a trip whose total credit is null adds nothing to
\* the credit total and nothing to the trip count that avg_credit_by_length
\* and avg_credit_per_trip divide by
C26_NullCreditLeftOutOfAverages ==
    op = "analyze_file" /\ ret # ZeroDivisionError =>
        LET folded == Folded
            credited(l) == {k \in 1..Len(folded) :
                               folded[k].credit # NoneNum /\ folded[k].length = l}
            credit(l) == Sum([k \in 1..Len(folded) |->
                                 IF k \in credited(l)
                                 THEN folded[k].credit * folded[k].occurrences
                                 ELSE 0])
            count(l) == Sum([k \in 1..Len(folded) |->
                                IF k \in credited(l)
                                THEN folded[k].occurrences ELSE 0])
        IN  /\ ret.total_credit_hours = Sum([l \in Lengths |-> credit(l)])
            /\ \A l \in Lengths :
                   IsQuotient(ret.avg_credit_by_length[l], credit(l), count(l))
            /\ IsQuotient(ret.avg_credit_per_trip,
                          Sum([l \in Lengths |-> credit(l)]),
                          Sum([l \in Lengths |-> count(l)]))

\* the trips of the call's file whose length is not one of 1..5
OutOfRange ==
    LET trips == parse_trips(args.file_content)
    IN  {k \in 1..Len(trips) :
            determine_trip_length_with_details(trips[k]).num_days \notin 1..5}

\* the call's file without the trips whose length is not one of 1..5
FileOfLengthsInRange ==
    LET trips == parse_trips(args.file_content)
        kept == {k \in 1..Len(trips) : k \notin OutOfRange}
        in_range(t) == \E k \in kept : trips[k] = t
    IN  Concat(SelectSeq(trips, in_range))

\* C27: after analyze_file has folded the trips of a file, total_trips is
\* the sum of trip_counts over the lengths 1..5, and a trip whose length is
\* outside 1..5 (last letter E and the red-eye extension give 6) adds to no
\* counter: the result is that of the file without such trips
C27_TotalIsSumOfCounts ==
    op = "analyze_file" /\ ret # ZeroDivisionError =>
        /\ ret.total_trips = Sum([l \in Lengths |-> ret.trip_counts[l]])
        /\ ret = analyze_file(FileOfLengthsInRange, args.base_filter,
                     args.front_commute_minutes, args.back_commute_minutes,
                     args.include_short_trips_commute, args.bid_year)

\* a call on a file that holds a trip of length 6 with occurrences, which
\* passes the base filter, and a trip that is counted
C27_Witness ==
    /\ op = "analyze_file"
    /\ ret # ZeroDivisionError
    /\ ret.total_trips > 0
    /\ \E k \in OutOfRange :
           LET trip == parse_trips(args.file_content)[k]
           IN  /\ determine_trip_length_with_details(trip).num_days = 6
               /\ get_effective_dates(trip, args.bid_year).occurrences > 0
               /\ get_first_departure_airport(trip) # NoneStr
               /\ \/ args.base_filter = "All Bases"
                  \/ base_of(get_first_departure_airport(trip)) = args.base_filter

\* the counters of the call after the loop
Counters ==
    analyze_counters(args.file_content, args.base_filter,
                     args.front_commute_minutes, args.back_commute_minutes,
                     args.include_short_trips_commute, args.bid_year)

\* the keys of the result whose values are percentages of the trips of a
\* length
PercentageKeys ==
    {"single_leg_pct", "redeye_pct", "front_commute_pct", "back_commute_pct",
     "both_commute_pct"}

\* the quotient q lies in 0..100
IsPercentage(q) ==
    /\ q.den > 0
    /\ 0 <= q.num
    /\ q.num <= 100 * q.den

\* C28: every per-length count of analyze_file satisfies 0 <= both-commutable
\* <= min(front-commutable, back-commutable) <= trip count and 0 <= red-eye
\* count, single-leg count <= trip count, so that every percentage in the
\* result lies in 0..100
C28_CountsOrderedAndPercentagesInRange ==
    op = "analyze_file" /\ ret # ZeroDivisionError =>
        LET c == Counters
        IN  \A l \in Lengths :
                /\ 0 <= c.commute_both[l]
                /\ c.commute_both[l] <= c.commute_front[l]
                /\ c.commute_both[l] <= c.commute_back[l]
                /\ c.commute_front[l] <= c.trip_counts[l]
                /\ c.commute_back[l] <= c.trip_counts[l]
                /\ 0 <= c.redeye_counts[l]
                /\ c.redeye_counts[l] <= c.trip_counts[l]
                /\ 0 <= c.single_leg_counts[l]
                /\ c.single_leg_counts[l] <= c.trip_counts[l]
                /\ \A k \in PercentageKeys : IsPercentage(ret[k][l])

(***************************************************************************)
(* The red-eye extension and the red-eye report.                           *)
(***************************************************************************)
\* the length that the last letter seen stands for
LengthOfLastLetter ==
    IF LastLetterSeen = "" THEN 0 ELSE day_to_length[LastLetterSeen]

\* C29: whenever determine_trip_length_with_details extends the length of a
\* trip by 1 under the red-eye rule, has_redeye_flight is true for the legs
\* of the trip
C29_ExtensionImpliesRedeye ==
    op = "determine_trip_length_with_details"
        /\ ret.num_days = LengthOfLastLetter + 1
        => has_redeye_flight(ret.flight_legs)

\* the trips of the call's file with a trip number by get_trip_number, a
\* first airport that passes the base filter, a resolved date range and at
\* least one duty day
HeatEligible ==
    LET trips == parse_trips(args.file_content)
        e(k) == get_effective_dates(trips[k], args.bid_year)
    IN  {k \in 1..Len(trips) :
            /\ get_trip_number(trips[k]) # <<>>
            /\ get_first_departure_airport(trips[k]) # NoneStr
            /\ \/ args.base_filter = "All Bases"
               \/ base_of(get_first_departure_airport(trips[k])) = args.base_filter
            /\ e(k).start_date # None
            /\ e(k).end_date # None
            /\ heat_duty_days(trips[k], 1, <<>>) # <<>>}

\* the duty days of the eligible trips: <<trip, occurrence, i, date>>
HeatEligibleDutyDays ==
    LET trips == parse_trips(args.file_content)
    IN  UNION {{<<k, n, i, add_days(HeatOccurrenceDates(k)[n], i)>> :
                   n \in 1..Len(HeatOccurrenceDates(k)),
                   i \in 0..(Len(heat_duty_days(trips[k], 1, <<>>)) - 1)} :
               k \in HeatEligible}

\* C30: every trip for which get_trip_number yields a number, one with a
\* leading letter such as #L832 included, and which passes the base filter
\* with a resolved date range and at least one duty day, adds its duty days
\* to the counts of generate_staffing_heatmap
C30_NumberedTripsAreCounted ==
    op = "generate_staffing_heatmap" =>
        LET duties == HeatEligibleDutyDays
        IN  \A day \in 1..Len(ret.pilot_counts) :
                ret.pilot_counts[day] >=
                    Cardinality({t \in duties : t[4] = ret.dates[day]})

====
